---- MODULE Spec2Model ----
(***************************************************************************)
(* Model of the scan-qualify-size-gate-execute pipeline of the Polymarket  *)
(* arbitrage agent: RiskManager (risk_manager.py), TradeExecutor           *)
(* (trade_executor.py) and MarketScanner (market_scanner.py).              *)
(*                                                                         *)
(* Units.  Python floats are modelled as exact fixed-point integers:       *)
(*   money          in cents          (5000.0 USD  = 500000)               *)
(*   probabilities  in thousandths    (0.92        = 920)                  *)
(*   spreads        in thousandths    (0.05        = 50)                   *)
(*   time           in half hours     (48.0 h      = 96)                   *)
(* Products and quotients are kept as exact fractions (numerator and       *)
(* denominator) until the code rounds them.                                *)
(***************************************************************************)
EXTENDS Integers, Sequences, FiniteSets, TLC

VARIABLES
    riskCall,     \* the last RiskManager call: its arguments and its return
    tradeIn,      \* arguments of the last execute_trade call and what the
                  \* execution collaborator will answer during it
    calls,        \* collaborator methods invoked during that call, in order
    result,       \* the dict execute_trade returned
    exception,    \* the exception raised inside its try block, if any
    propagated,   \* TRUE iff execute_trade let an exception reach its caller
    critIn,       \* arguments of the last check_market_criteria call
    critOut,      \* the (qualifies, reason) tuple it returned
    scanIn,       \* arguments and environment of the last scan_markets call
                  \* made by a caller other than the scan loop
    scanOut,      \* what that call returned or raised
    scanner,      \* the scanner's fields scan_count, last_scan_time and
                  \* qualified_markets
    history,      \* the scan_markets calls made one after another on the
                  \* scanner: how many, how many returned, what the latest
                  \* one that returned gave back
    fnCall,       \* the last call of a function that keeps no state:
                  \* its arguments and what it returned
    loop,         \* api_server's is_scanning flag and its scan_loop threads
    cfg           \* config.py's module state: the ConfigSingleton and `config`

vars == <<riskCall, tradeIn, calls, result, exception, propagated,
          critIn, critOut, scanIn, scanOut, scanner, history, fnCall,
          loop, cfg>>

\* the state of each component, for the actions that leave it alone
riskVars == <<riskCall>>
tradeVars == <<tradeIn, calls, result, exception, propagated>>
criteriaVars == <<critIn, critOut>>
scanVars == <<scanIn, scanOut, scanner, history>>

-----------------------------------------------------------------------------
(* Configuration read by RiskManager as self.config.MIN_PROBABILITY,       *)
(* MAX_PROBABILITY, MIN_LIQUIDITY and MAX_POSITION_SIZE.  The values are    *)
(* the defaults config.py gives the corresponding settings (0.92, 0.99,     *)
(* 5000.0 USD, 1000.0 USD).                                                 *)

MIN_PROBABILITY == 920
MAX_PROBABILITY == 990
MIN_LIQUIDITY == 500000
MAX_POSITION_SIZE == 100000
\* risk_manager.py:50  "if position_size < 10.0"
MIN_VIABLE_POSITION == 1000
\* risk_manager.py:94  "if spread > 0.05"
MAX_SPREAD == 50
\* risk_manager.py:93  market.get("spread", 1.0)
DEFAULT_SPREAD == 1000
\* risk_manager.py:85  "position_size * 1.1" as the fraction 11/10
BUFFER_NUM == 11
BUFFER_DEN == 10

-----------------------------------------------------------------------------
(* Python values.  A dict entry is absent, None, or a number.              *)

Num(v) == [kind |-> "num", v |-> v]
AbsentV == [kind |-> "absent", v |-> 0]
NullV == [kind |-> "null", v |-> 0]

\* dict.get(key, default): the default only when the key is absent.
DictGet(entry, default) == IF entry.kind = "absent" THEN Num(default) ELSE entry

NoneId == "None"

\* round(x, 2) of the non-negative fraction n/d of cents: nearest cent, a tie
\* going to the even cent.
RoundCents(n, d) ==
    LET q == n \div d
        r == n % d
    IN  IF 2 * r < d THEN q
        ELSE IF 2 * r > d THEN q + 1
        ELSE IF q % 2 = 0 THEN q ELSE q + 1

Min(a, b) == IF a < b THEN a ELSE b
Abs(a) == IF a < 0 THEN -a ELSE a

RECURSIVE Gcd(_, _)
Gcd(a, b) == IF b = 0 THEN a ELSE Gcd(b, a % b)

\* Exact product of the fractions x = <<n, d>> and y (d > 0), cancelling
\* common factors first so that the intermediate values stay small.
FracMul(x, y) ==
    LET g1 == Gcd(Abs(x[1]), y[2])
        g2 == Gcd(Abs(y[1]), x[2])
    IN  <<(x[1] \div g1) * (y[1] \div g2), (x[2] \div g2) * (y[2] \div g1)>>

-----------------------------------------------------------------------------
(* RiskManager.calculate_position_size                                     *)

Returned(size) == [raised |-> FALSE, exc |-> "", size |-> size]
Raised(e) == [raised |-> TRUE, exc |-> e, size |-> 0]

\* min(position_size, MAX_POSITION_SIZE) on the fraction n/d
ClampNoMax(n, d) == <<n, d>>
ClampToMax(n, d) ==
    IF n > MAX_POSITION_SIZE * d THEN <<MAX_POSITION_SIZE, 1>> ELSE <<n, d>>

\* "if position_size < 10.0: return 0.0"
BelowViableRounded(n, d) == RoundCents(n, d) < MIN_VIABLE_POSITION
BelowViable(n, d) == n < MIN_VIABLE_POSITION * d

\* "if liquidity < MIN_LIQUIDITY: return 0.0"
LiquidityFloorOff(liquidity) == FALSE
LiquidityFloor(liquidity) == liquidity < MIN_LIQUIDITY

calculate_position_size(market, probability) ==
    LET base_size == <<MAX_POSITION_SIZE, 1>>
        probability_multiplier ==
            <<probability - MIN_PROBABILITY, MAX_PROBABILITY - MIN_PROBABILITY>>
        liq == DictGet(market.liquidity, 0)
    IN  IF liq.kind = "null"
        THEN Raised("'<' not supported between instances of 'NoneType' and 'float'")
        ELSE IF LiquidityFloor(liq.v) THEN Returned(0)
        ELSE
          LET \* min(1.0, liquidity / (MIN_LIQUIDITY * 2))
              liquidity_multiplier ==
                  <<Min(MIN_LIQUIDITY * 2, liq.v), MIN_LIQUIDITY * 2>>
              raw == FracMul(FracMul(base_size, probability_multiplier),
                             liquidity_multiplier)
              c == ClampToMax(raw[1], raw[2])
          IN  IF BelowViable(c[1], c[2]) THEN Returned(0)
              ELSE Returned(RoundCents(c[1], c[2]))

-----------------------------------------------------------------------------
(* RiskManager.check_risk_limits                                           *)

Reason(kind, lhs, rhs, exc) == [kind |-> kind, lhs |-> lhs, rhs |-> rhs, exc |-> exc]

\* what Polymarket.get_usdc_balance answers: a balance, or an exception
BalanceOk(v) == [ok |-> TRUE, value |-> v, exc |-> ""]
BalanceErr(e) == [ok |-> FALSE, value |-> 0, exc |-> e]

LiquidityReasons(liq) ==
    IF liq < MIN_LIQUIDITY
    THEN <<Reason("Insufficient liquidity", liq, MIN_LIQUIDITY, "")>>
    ELSE <<>>

SizeReasons(position_size) ==
    IF position_size > MAX_POSITION_SIZE
    THEN <<Reason("Position size too large", position_size, MAX_POSITION_SIZE, "")>>
    ELSE <<>>

\* balance < position_size * 1.1, both sides scaled by BUFFER_DEN
BalanceReasons(balance, position_size) ==
    IF ~balance.ok
    THEN <<Reason("Error checking balance", 0, 0, balance.exc)>>
    ELSE IF balance.value * BUFFER_DEN < position_size * BUFFER_NUM
    THEN <<Reason("Insufficient balance", balance.value * BUFFER_DEN,
                  position_size * BUFFER_NUM, "")>>
    ELSE <<>>

SpreadReasons(spread) ==
    IF spread > MAX_SPREAD
    THEN <<Reason("Spread too wide", spread, MAX_SPREAD, "")>>
    ELSE <<>>

Decision(reasons) ==
    [raised |-> FALSE, exc |-> "", approved |-> reasons = <<>>, reasons |-> reasons]
DecisionRaised(e) ==
    [raised |-> TRUE, exc |-> e, approved |-> FALSE, reasons |-> <<>>]

\* a variant that returns at the first failing check
FirstOnly(reasons) == IF reasons = <<>> THEN <<>> ELSE <<Head(reasons)>>
CollectFirst(liqR, sizeR, balR, spreadR) ==
    Decision(FirstOnly(liqR \o sizeR \o balR \o spreadR))
CollectAll(liqR, sizeR, balR, spreadR) ==
    Decision(liqR \o sizeR \o balR \o spreadR)

check_risk_limits(market, position_size, balance) ==
    LET liq == DictGet(market.liquidity, 0)
        spread == DictGet(market.spread, DEFAULT_SPREAD)
    IN  IF liq.kind = "null"
        THEN DecisionRaised("'<' not supported between instances of 'NoneType' and 'float'")
        ELSE IF spread.kind = "null"
        THEN DecisionRaised("'>' not supported between instances of 'NoneType' and 'float'")
        ELSE CollectAll(LiquidityReasons(liq.v), SizeReasons(position_size),
                        BalanceReasons(balance, position_size), SpreadReasons(spread.v))

\* a call of a method of the execution collaborator
Call(op, amount, token, market_ref) ==
    [op |-> op, amount |-> amount, token |-> token, market_ref |-> market_ref]

\* get_usdc_balance is called on every path that reaches line 84
RiskCalls(market) ==
    IF DictGet(market.liquidity, 0).kind = "null" THEN <<>>
    ELSE <<Call("get_usdc_balance", 0, NoneId, <<>>)>>

-----------------------------------------------------------------------------
(* TradeExecutor.execute_trade                                             *)

\* market["clob_token_ids"]: absent key, None, a native list, or a string
\* holding the list literal (the venue's encoding), possibly garbled.
Tokens(kind, ids) == [kind |-> kind, ids |-> ids]

\* ast.literal_eval: only a well-formed string yields a value.
Parsed(ids) == [ok |-> TRUE, ids |-> ids, exc |-> ""]
ParseError(e) == [ok |-> FALSE, ids |-> <<>>, exc |-> e]
literal_eval(entry) ==
    CASE entry.kind = "encoded" -> Parsed(entry.ids)
      [] entry.kind = "garbled" -> ParseError("invalid syntax (<unknown>, line 1)")
      [] entry.kind = "null" -> ParseError("malformed node or string: None")
      [] OTHER -> ParseError("malformed node or string: [...]")

\* Python's token_ids[i]: a negative i counts from the end.
IndexInRange(ids, i) == -Len(ids) <= i /\ i < Len(ids)
PyIndex(ids, i) == IF i >= 0 THEN ids[i + 1] ELSE ids[Len(ids) + i + 1]

\* "if not token_ids or len(token_ids) <= outcome_index"
TokenGuard(ids, outcome_index) == ids = <<>> \/ Len(ids) <= outcome_index

NoError == [isNone |-> TRUE, msg |-> "", reasons |-> <<>>]
ErrorText(msg) == [isNone |-> FALSE, msg |-> msg, reasons |-> <<>>]
\* "; ".join(reasons): the reasons in order
ErrorJoined(reasons) == [isNone |-> FALSE, msg |-> "", reasons |-> reasons]

\* the result dict as initialised at lines 31-36, with the error filled in
FailureKeepsSize(err, size) ==
    [success |-> FALSE, order_id |-> NoneId, error |-> err, position_size |-> size]
Failure(err, size) ==
    [success |-> FALSE, order_id |-> NoneId, error |-> err, position_size |-> 0]
\* lines 67-69
Success(order_id, size) ==
    [success |-> TRUE, order_id |-> order_id, error |-> NoError, position_size |-> size]

NoResult == [success |-> FALSE, order_id |-> NoneId, error |-> NoError, position_size |-> -1]

NoException == [step |-> "", exc |-> ""]

Outcome(res, cs) ==
    [result |-> res, calls |-> cs, exception |-> NoException, propagated |-> FALSE]

\* "except Exception as e: result['error'] = str(e); return result"
CatchOnlyValueError(e, size, cs) ==
    IF e = "malformed node or string: None"
    THEN Outcome(Failure(ErrorText(e), size), cs)
    ELSE [result |-> NoResult, calls |-> cs, exception |-> NoException,
          propagated |-> TRUE]
Catch(e, size, cs) == Outcome(Failure(ErrorText(e), size), cs)

\* an exception e raised by a step inside the try block reaches the handler
Throw(step, e, size, cs) ==
    [Catch(e, size, cs) EXCEPT !.exception = [step |-> step, exc |-> e]]

\* "if position_size == 0"
SizeGateOff(size) == FALSE
SizeGate(size) == size = 0

\* "if not risk_check['approved']"
RiskGateOff(risk) == FALSE
RiskGate(risk) == ~risk.approved

\* the order held back when the price fetched is above the probability
SubmitIfPriceBelow(in, size, token_id, cs0) ==
    LET cs1 == Append(cs0, Call("get_orderbook_price", 0, token_id, <<>>))
        cs2 == Append(cs1, Call("execute_market_order", size, NoneId,
                               in.market.clob_token_ids.ids))
    IN  IF ~in.price.ok THEN Throw("price", in.price.exc, size, cs1)
        ELSE IF in.price.price > in.probability
        THEN Outcome(Failure(ErrorText("Price too high"), size), cs1)
        ELSE IF ~in.order.ok THEN Throw("order", in.order.exc, size, cs2)
        ELSE Outcome(Success(in.order.id, size), cs2)
\* the order submitted a second time when the first submission raises
SubmitAgainOnError(in, size, token_id, cs0) ==
    LET cs1 == Append(cs0, Call("get_orderbook_price", 0, token_id, <<>>))
        cs2 == Append(cs1, Call("execute_market_order", size, NoneId,
                               in.market.clob_token_ids.ids))
    IN  IF ~in.price.ok THEN Throw("price", in.price.exc, size, cs1)
        ELSE IF ~in.order.ok
        THEN Throw("order", in.order.exc, size, Append(cs2, cs2[Len(cs2)]))
        ELSE Outcome(Success(in.order.id, size), cs2)
\* lines 59-65: price fetch, then the order
Submit(in, size, token_id, cs0) ==
    LET cs1 == Append(cs0, Call("get_orderbook_price", 0, token_id, <<>>))
        cs2 == Append(cs1, Call("execute_market_order", size, NoneId,
                               in.market.clob_token_ids.ids))
    IN  IF ~in.price.ok THEN Throw("price", in.price.exc, size, cs1)
        ELSE IF ~in.order.ok THEN Throw("order", in.order.exc, size, cs2)
        ELSE Outcome(Success(in.order.id, size), cs2)

\* lines 51-57: token resolution
ResolveToken(in, size, cs) ==
    LET entry == in.market.clob_token_ids
        parsed == literal_eval(entry)
    IN  IF entry.kind = "absent" THEN Throw("token", "'clob_token_ids'", size, cs)
        ELSE IF ~parsed.ok THEN Throw("token", parsed.exc, size, cs)
        ELSE IF TokenGuard(parsed.ids, in.outcome_index)
        THEN Outcome(Failure(ErrorText("Invalid token ID"), size), cs)
        ELSE IF ~IndexInRange(parsed.ids, in.outcome_index)
        THEN Throw("token", "list index out of range", size, cs)
        ELSE Submit(in, size, PyIndex(parsed.ids, in.outcome_index), cs)

execute_trade(in) ==
    LET sized == calculate_position_size(in.market, in.probability)
        risk == check_risk_limits(in.market, sized.size, in.balance)
        cs == RiskCalls(in.market)
    IN  IF sized.raised THEN Throw("sizing", sized.exc, 0, <<>>)
        ELSE IF SizeGate(sized.size)
        THEN Outcome(Failure(ErrorText("Position size is zero"), sized.size), <<>>)
        ELSE IF risk.raised THEN Throw("risk", risk.exc, sized.size, cs)
        ELSE IF RiskGate(risk)
        THEN Outcome(Failure(ErrorJoined(risk.reasons), sized.size), cs)
        ELSE ResolveToken(in, sized.size, cs)

-----------------------------------------------------------------------------
(* MarketScanner.check_market_criteria                                     *)

\* MarketScanner.__init__: min_liquidity = 5000.0
SCANNER_MIN_LIQUIDITY == 500000

\* Python truthiness of a dict entry read with .get(key): None (absent or
\* null) and 0 are false.
Truthy(entry) == entry.kind = "num" /\ entry.v # 0
\* "a or b"
OrElse(a, b) == IF Truthy(a) THEN a ELSE b
IsNone(entry) == entry.kind \in {"absent", "null"}

\* market.get(flag, False) of a status flag stored as "true", "false" or
\* "absent"
FlagGet(flag) == flag = "true"

\* json.loads of an encoded list, float() of every element
Prices(kind, prices) == [kind |-> kind, prices |-> prices]
SeqMax(seq) == CHOOSE x \in {seq[i] : i \in DOMAIN seq} :
                   \A j \in DOMAIN seq : seq[j] <= x
\* list.index: the first position holding the value (0-based)
IndexOfLast(seq, x) == (CHOOSE i \in DOMAIN seq :
                            seq[i] = x /\ \A j \in (i + 1)..Len(seq) : seq[j] # x) - 1
IndexOf(seq, x) == (CHOOSE i \in DOMAIN seq :
                        seq[i] = x /\ \A j \in 1..(i - 1) : seq[j] # x) - 1

EndDate(kind, diff) == [kind |-> kind, diff |-> diff]
\* market.get("endDate") or market.get("endDateIso")
EndDateStr(market) ==
    IF market.endDate.kind # "absent" THEN market.endDate ELSE market.endDateIso

Verdict(qualifies, reason) == [qualifies |-> qualifies, reason |-> reason]

\* "if liquidity and liquidity < self.min_liquidity"
LiquidityRejects(liquidity, min_liquidity) ==
    liquidity # 0 /\ liquidity < min_liquidity

\* lines 337-347
CheckLiquidity(market, min_liquidity) ==
    LET got == OrElse(market.liquidityClob, market.liquidity)
        liquidity == IF IsNone(got) THEN 0 ELSE got.v
    IN  IF LiquidityRejects(liquidity, min_liquidity)
        THEN Verdict(FALSE, "Insufficient liquidity")
        ELSE Verdict(TRUE, "All criteria met")

\* "if time_diff < 0"
AlreadyEnded(time_diff) == time_diff < 0

\* the liquidity test moved ahead of the end-date tests
CheckLiquidityBeforeTime(market, time_window, min_liquidity) ==
    LET end_date_str == EndDateStr(market)
    IN  IF ~CheckLiquidity(market, min_liquidity).qualifies
        THEN CheckLiquidity(market, min_liquidity)
        ELSE IF end_date_str.kind = "absent" THEN Verdict(FALSE, "No end date available")
        ELSE IF end_date_str.kind \in {"bad", "naive"}
        THEN Verdict(FALSE, "Invalid end date format")
        ELSE IF AlreadyEnded(end_date_str.diff)
        THEN Verdict(FALSE, "Market has already ended")
        ELSE IF end_date_str.diff > time_window
        THEN Verdict(FALSE, "Resolution too far")
        ELSE Verdict(TRUE, "All criteria met")
\* lines 311-335
CheckTime(market, time_window, min_liquidity) ==
    LET end_date_str == EndDateStr(market)
    IN  IF end_date_str.kind = "absent" THEN Verdict(FALSE, "No end date available")
        ELSE IF end_date_str.kind \in {"bad", "naive"}
        THEN Verdict(FALSE, "Invalid end date format")
        ELSE IF AlreadyEnded(end_date_str.diff)
        THEN Verdict(FALSE, "Market has already ended")
        ELSE IF end_date_str.diff > time_window
        THEN Verdict(FALSE, "Resolution too far")
        ELSE CheckLiquidity(market, min_liquidity)

\* lines 290-309
CheckPrices(market, min_prob, max_prob, time_window, min_liquidity) ==
    LET op == market.outcomePrices
    IN  IF op.kind = "garbled"
        THEN Verdict(FALSE, "Error during validation")
        ELSE IF op.kind \in {"absent", "null"} \/ Len(op.prices) < 2
        THEN Verdict(FALSE, "Invalid outcome prices")
        ELSE IF op.kind = "nonnumeric"
        THEN Verdict(FALSE, "Could not parse outcome prices")
        ELSE IF ~(min_prob <= SeqMax(op.prices) /\ SeqMax(op.prices) <= max_prob)
        THEN Verdict(FALSE, "Probability outside range")
        ELSE CheckTime(market, time_window, min_liquidity)

check_market_criteria(market, min_prob, max_prob, time_window, min_liquidity) ==
    IF ~FlagGet(market.active) THEN Verdict(FALSE, "Market is not active")
    ELSE IF FlagGet(market.closed) THEN Verdict(FALSE, "Market is closed")
    ELSE IF FlagGet(market.archived) THEN Verdict(FALSE, "Market is archived")
    ELSE IF ~FlagGet(market.funded) THEN Verdict(FALSE, "Market is not funded")
    ELSE CheckPrices(market, min_prob, max_prob, time_window, min_liquidity)

-----------------------------------------------------------------------------
(* MarketScanner.get_market_details                                        *)

\* the fixed band and window of lines 457-465: 0.92, 0.99 and 48.0 hours
DETAILS_MIN_PROB == 920
DETAILS_MAX_PROB == 990
DETAILS_WINDOW == 96

RECURSIVE Notional(_)
\* sum of price * size over the orders of one side, in cents
Notional(orders) ==
    IF orders = <<>> THEN 0
    ELSE (Head(orders)[1] * Head(orders)[2]) \div 10 + Notional(Tail(orders))

\* lines 484-505
_calculate_orderbook_liquidity(orderbook) ==
    Notional(orderbook.bids) + Notional(orderbook.asks)

\* lines 410-424: the reported liquidity, or the order book's notional when
\* the reported one is low and a token of the winning outcome is available
DetailsLiquidity(market_data, winning_index, min_liquidity) ==
    LET got == OrElse(OrElse(market_data.liquidityClob, market_data.liquidity), Num(0))
        liquidity == IF IsNone(got) THEN 0 ELSE got.v
        tok == market_data.clobTokenIds
    IN  IF liquidity < min_liquidity
           /\ tok.kind \in {"list", "encoded"} /\ Len(tok.ids) > winning_index
           /\ market_data.book.ok
        THEN _calculate_orderbook_liquidity(market_data.book)
        ELSE liquidity

NoDetails == [kind |-> "none"]

\* lines 429-466, the keys the pipeline reads
DetailsDict(market_data, prices, hours_known, hours_until, liquidity, min_liquidity) ==
    LET winning_prob == SeqMax(prices)
        time_ok == hours_known /\ 0 < hours_until /\ hours_until <= DETAILS_WINDOW
        prob_ok == DETAILS_MIN_PROB <= winning_prob /\ winning_prob <= DETAILS_MAX_PROB
    IN  [kind |-> "dict",
         market_id |-> market_data.id,
         question |-> market_data.question,
         outcome_prices |-> prices,
         winning_outcome_index |-> IndexOf(prices, winning_prob),
         winning_probability |-> winning_prob,
         active |-> FlagGet(market_data.active),
         closed |-> FlagGet(market_data.closed),
         funded |-> FlagGet(market_data.funded),
         hours_until_resolution |-> IF hours_known THEN hours_until ELSE 0,
         time_window_qualifies |-> time_ok,
         liquidity |-> liquidity,
         spread |-> DictGet(market_data.spread, 0),
         clob_token_ids |-> market_data.clobTokenIds,
         meets_liquidity_requirement |-> liquidity >= min_liquidity,
         meets_probability_requirement |-> prob_ok,
         meets_time_requirement |-> time_ok,
         is_qualified |-> liquidity >= min_liquidity /\ prob_ok /\ time_ok]

\* market_data is what gamma_client.get_market answers for the id: the
\* record, nothing (market.detail = "none"), or an exception ("raise")
get_market_details(market_data, min_liquidity) ==
    LET op == market_data.outcomePrices
        end == EndDateStr(market_data)
        hours_known == end.kind \in {"iso", "date"}
    IN  IF market_data.detail \in {"none", "raise"} THEN NoDetails
        ELSE IF op.kind = "garbled" THEN NoDetails
        ELSE IF op.kind \in {"absent", "null"} \/ op.prices = <<>> THEN NoDetails
        ELSE IF market_data.outcome \in {"absent", "empty"} THEN NoDetails
        ELSE IF op.kind = "nonnumeric" THEN NoDetails
        ELSE DetailsDict(market_data, op.prices, hours_known, end.diff,
                         DetailsLiquidity(market_data,
                                          IndexOf(op.prices, SeqMax(op.prices)),
                                          min_liquidity),
                         min_liquidity)

-----------------------------------------------------------------------------
(* Building a MarketCandidate from a details dict: field types, validators *)

CandidateValid(details) ==
    /\ details.question # "null"
    /\ details.spread.kind = "num"
    /\ details.clob_token_ids.kind \in {"absent", "null", "list"}
    /\ 0 <= details.winning_probability /\ details.winning_probability <= 1000
    /\ details.liquidity >= 0

-----------------------------------------------------------------------------
(* MarketScanner.scan_markets                                              *)

\* stop_after_attempt(3)
MAX_ATTEMPTS == 3

RECURSIVE ProcessMarkets(_, _, _)
\* lines 207-237: the qualifying markets' details, in order
ProcessMarkets(raw_markets, th, min_liquidity) ==
    IF raw_markets = <<>> THEN <<>>
    ELSE LET market_data == Head(raw_markets)
             verdict == check_market_criteria(market_data, th[1], th[2], th[3],
                                              min_liquidity)
             market_details == get_market_details(market_data, min_liquidity)
             rest == ProcessMarkets(Tail(raw_markets), th, min_liquidity)
         IN  IF verdict.qualifies /\ market_details.kind = "dict"
             THEN <<market_details>> \o rest
             ELSE rest

ScanReturned(qualified, attempts) ==
    [outcome |-> "returned", exc |-> "", markets |-> qualified, attempts |-> attempts]
ScanRaised(e, attempts) ==
    [outcome |-> "raised", exc |-> e, markets |-> <<>>, attempts |-> attempts]

\* lines 239-250 after a successful fetch: count the scan, build the cache,
\* return.  The cache is built after the counter is incremented.
FinishScan(sc, qualified, attempts, now) ==
    IF \A i \in DOMAIN qualified : CandidateValid(qualified[i])
    THEN [out |-> ScanReturned(qualified, attempts),
          scanner |-> [scan_count |-> sc.scan_count + 1,
                       last_scan_time |-> now,
                       qualified_markets |-> qualified]]
    ELSE [out |-> ScanRaised("ValidationError", attempts),
          scanner |-> [sc EXCEPT !.scan_count = sc.scan_count + 1,
                                 !.last_scan_time = now]]

RECURSIVE Attempt(_, _, _)
\* one execution of the decorated body; fetch[n] is what
\* gamma_client.get_markets does on attempt n
Attempt(sc, in, n) ==
    CASE in.fetch[n] = "ok" ->
             FinishScan(sc, ProcessMarkets(in.markets, in.thresholds,
                                           SCANNER_MIN_LIQUIDITY), n, in.now)
      [] in.fetch[n] = "transient" /\ n < MAX_ATTEMPTS -> Attempt(sc, in, n + 1)
      [] in.fetch[n] = "transient" /\ n >= MAX_ATTEMPTS ->
             [out |-> ScanRaised("httpx.ConnectError", n), scanner |-> sc]
      [] OTHER -> [out |-> ScanRaised("RuntimeError", n), scanner |-> sc]

scan_markets(sc, in) == Attempt(sc, in, 1)

-----------------------------------------------------------------------------
(* Inputs                                                                  *)

\* longest token-identifier list of a candidate
MaxTokens == 2

LiquidityValues == {0, 499999, 500000, 699900, 1000000, 1500000}
LiquidityEntries == {AbsentV} \cup {Num(v) : v \in LiquidityValues}
SpreadEntries == {AbsentV, Num(0), Num(50), Num(51)}
\* probabilities below, inside and above the band [0.92, 0.99]
Probabilities == {900, 920, 921, 955, 990, 1000}
TradeProbabilities == {900, 921, 955, 1000}
PositionSizes == {0, 1000, 99999, 100000, 100001}
BalanceResponses ==
    {BalanceErr("rpc unreachable")}
        \cup {BalanceOk(v) : v \in {0, 1571, 1572, 109999, 110000}}

TokenNames == <<"tok0", "tok1", "tok2", "tok3">>
TokenList(n) == SubSeq(TokenNames, 1, n)
TokenEntries ==
    {Tokens("absent", <<>>), Tokens("null", <<>>), Tokens("garbled", <<>>),
     Tokens("list", TokenList(MaxTokens))}
        \cup {Tokens("encoded", TokenList(n)) : n \in 0..MaxTokens}
OutcomeIndexes == (-(MaxTokens + 1))..MaxTokens

\* get_orderbook_price: a price in thousandths, or an exception
PriceResponses ==
    {[ok |-> TRUE, price |-> 500, exc |-> ""],
     [ok |-> TRUE, price |-> 999, exc |-> ""],
     [ok |-> FALSE, price |-> 0, exc |-> "502 Bad Gateway"]}
OrderResponses ==
    {[ok |-> TRUE, id |-> "0xorder", exc |-> ""],
     [ok |-> FALSE, id |-> NoneId, exc |-> "order rejected"]}

RiskMarkets ==
    [liquidity : LiquidityEntries, spread : SpreadEntries,
     clob_token_ids : {Tokens("absent", <<>>)}]
TradeMarkets ==
    [liquidity : {AbsentV, NullV, Num(499999), Num(500000), Num(1500000)},
     spread : {AbsentV, Num(50), Num(51), NullV},
     clob_token_ids : TokenEntries]

-----------------------------------------------------------------------------
(* State after construction: nothing has been called yet.                  *)

Idle == [op |-> "idle"]

\* threads that /start can create
Workers == {"w1", "w2"}

\* the locals of an iteration that has not got past scan_markets, or is
\* over: no candidates, nothing sent to the notification sink, no callback
NoCycle ==
    [scanned |-> FALSE, found |-> <<>>, sink |-> "unused", callback |-> "unused",
     events |-> <<>>]

\* MarketScanner.__init__, lines 147-150; last_scan_time 0 stands for None
NewScanner == [scan_count |-> 0, last_scan_time |-> 0, qualified_markets |-> <<>>]

\* no scan_markets call was made yet
NoHistory == [calls |-> 0, returned |-> 0, latest |-> <<>>, before |-> NewScanner]

\* a scan_loop thread that was not created yet
NotStarted ==
    [pc |-> "unstarted", after |-> "none", slept |-> 0,
     stopped |-> FALSE, exit |-> "none", cycle |-> NoCycle]

\* api_server.py: is_scanning = False, no scanner thread
LoopInit ==
    [is_scanning |-> FALSE, reply |-> "none",
     workers |-> [w \in Workers |-> NotStarted]]

\* a configuration instance that does not exist
NoConfig == [id |-> 0, values |-> <<>>]
NoLoad == [env |-> <<>>, outcome |-> "none", exc |-> ""]

\* config.py before the module is imported: ConfigSingleton._instance is
\* None and _initialized is False
CfgInit ==
    [imported |-> FALSE, build |-> "none", _config |-> NoConfig,
     module_config |-> NoConfig, created |-> 0, lastLoad |-> NoLoad,
     lastGet |-> NoConfig, prevGet |-> NoConfig, accessed |-> 0]

Init ==
    /\ riskCall = Idle
    /\ tradeIn = Idle
    /\ calls = <<>>
    /\ result = NoResult
    /\ exception = NoException
    /\ propagated = FALSE
    /\ critIn = Idle
    /\ critOut = Idle
    /\ scanIn = Idle
    /\ scanOut = Idle
    /\ scanner = NewScanner
    /\ history = NoHistory
    /\ fnCall = Idle
    /\ loop = LoopInit
    /\ cfg = CfgInit

-----------------------------------------------------------------------------
(* Risk manager called on its own.  The risk manager keeps no state        *)
(* between calls, so one call from the initial state stands for every call.*)

RiskRecord(op, market, probability, position_size, balance, size, decision) ==
    [op |-> op, market |-> market, probability |-> probability,
     position_size |-> position_size, balance |-> balance,
     size |-> size, decision |-> decision]

CalculatePositionSize ==
    /\ riskCall = Idle
    /\ \E market \in RiskMarkets, probability \in Probabilities :
        /\ riskCall' = RiskRecord("calculate_position_size", market, probability, 0,
                                  BalanceOk(0),
                                  calculate_position_size(market, probability),
                                  Decision(<<>>))
        /\ UNCHANGED <<tradeIn, calls, result, exception, propagated,
                       critIn, critOut, scanIn, scanOut, scanner>>
        /\ UNCHANGED <<history, fnCall, loop, cfg>>

CheckRiskLimits ==
    /\ riskCall = Idle
    /\ \E market \in RiskMarkets, position_size \in PositionSizes,
          balance \in BalanceResponses :
        /\ riskCall' = RiskRecord("check_risk_limits", market, 0, position_size,
                                  balance, Returned(0),
                                  check_risk_limits(market, position_size, balance))
        /\ UNCHANGED <<tradeIn, calls, result, exception, propagated,
                       critIn, critOut, scanIn, scanOut, scanner>>
        /\ UNCHANGED <<history, fnCall, loop, cfg>>

NextRisk == CalculatePositionSize \/ CheckRiskLimits

SpecRisk == Init /\ [][NextRisk]_vars

-----------------------------------------------------------------------------
(* Trade executor.  execute_trade reads and writes no field of the         *)
(* executor, so one call from the initial state stands for every call.     *)

TradeBalances ==
    {BalanceErr("rpc unreachable"), BalanceOk(1571),
     BalanceOk(1572), BalanceOk(109999), BalanceOk(110000)}

ExecuteTrade ==
    /\ tradeIn = Idle
    /\ \E market \in TradeMarkets, outcome_index \in OutcomeIndexes,
          probability \in TradeProbabilities, balance \in TradeBalances,
          price \in PriceResponses, order \in OrderResponses :
        LET in == [op |-> "execute_trade", market |-> market,
                   outcome_index |-> outcome_index, probability |-> probability,
                   balance |-> balance, price |-> price, order |-> order]
            out == execute_trade(in)
        IN  /\ tradeIn' = in
            /\ calls' = out.calls
            /\ result' = out.result
            /\ exception' = out.exception
            /\ propagated' = out.propagated
            /\ UNCHANGED <<riskCall, critIn, critOut, scanIn, scanOut, scanner>>
            /\ UNCHANGED <<history, fnCall, loop, cfg>>

Next == ExecuteTrade

Spec == Init /\ [][Next]_vars

-----------------------------------------------------------------------------
(* check_market_criteria called on its own.  It reads only the scanner's   *)
(* min_liquidity, which no method changes.                                 *)

Flags == {"absent", "true", "false"}
PriceEntries ==
    {Prices("absent", <<>>), Prices("garbled", <<>>), Prices("list", <<950>>),
     Prices("list", <<950, 50>>), Prices("encoded", <<50, 950>>),
     Prices("list", <<850, 150>>), Prices("list", <<995, 5>>),
     Prices("nonnumeric", <<950, 50>>)}
\* hours until resolution in half hours: past, now, inside and beyond 48 h
EndDates ==
    {EndDate("absent", 0), EndDate("bad", 0), EndDate("naive", 48)}
        \cup {EndDate("iso", d) : d \in {-1, 0, 48, 96, 97}}
EndDateIsos == {EndDate("absent", 0), EndDate("date", 20)}
\* (min_prob, max_prob, time_window_hours)
Thresholds == {<<920, 990, 96>>, <<800, 960, 48>>}

CriteriaMarkets ==
    [active : Flags, closed : {"false", "true"}, archived : {"absent", "true"},
     funded : {"true", "absent"},
     outcomePrices : PriceEntries, endDate : EndDates, endDateIso : EndDateIsos,
     liquidityClob : {AbsentV, Num(0), Num(1000000)},
     liquidity : {AbsentV, Num(0), Num(499999), Num(500000)}]

CheckMarketCriteria ==
    /\ critIn = Idle
    /\ \E market \in CriteriaMarkets, th \in Thresholds :
        /\ critIn' = [op |-> "check_market_criteria", market |-> market,
                      min_prob |-> th[1], max_prob |-> th[2],
                      time_window_hours |-> th[3]]
        /\ critOut' = check_market_criteria(market, th[1], th[2], th[3],
                                            SCANNER_MIN_LIQUIDITY)
        /\ UNCHANGED <<riskCall, tradeIn, calls, result, exception, propagated,
                       scanIn, scanOut, scanner>>
        /\ UNCHANGED <<history, fnCall, loop, cfg>>

NextCriteria == CheckMarketCriteria

SpecCriteria == Init /\ [][NextCriteria]_vars

-----------------------------------------------------------------------------
(* scan_markets called on a fresh scanner.                                 *)

\* most markets the listing returns in one scan
MaxMarkets == 2

OrderBook(ok, bids, asks) == [ok |-> ok, bids |-> bids, asks |-> asks]

\* a market that passes every check and yields a valid candidate
GoodMarket ==
    [id |-> 1, active |-> "true", closed |-> "false", archived |-> "absent",
     funded |-> "true", outcomePrices |-> Prices("list", <<950, 50>>),
     endDate |-> EndDate("iso", 48), endDateIso |-> EndDate("absent", 0),
     liquidityClob |-> Num(1000000), liquidity |-> AbsentV,
     question |-> "text", outcome |-> "list", spread |-> Num(20),
     clobTokenIds |-> Tokens("list", TokenList(2)), detail |-> "same",
     book |-> OrderBook(TRUE, <<<<940, 5000>>>>, <<<<960, 3000>>>>)]

\* variations of it, one deviation each
ScanMarkets ==
    {GoodMarket,
     [GoodMarket EXCEPT !.id = 2, !.outcomePrices = Prices("list", <<850, 150>>)],
     [GoodMarket EXCEPT !.id = 3, !.liquidityClob = Num(0)],
     [GoodMarket EXCEPT !.id = 4, !.spread = NullV],
     [GoodMarket EXCEPT !.id = 5, !.clobTokenIds = Tokens("encoded", TokenList(2))],
     [GoodMarket EXCEPT !.id = 6, !.detail = "none"],
     [GoodMarket EXCEPT !.id = 7, !.detail = "raise"],
     [GoodMarket EXCEPT !.id = 8, !.outcomePrices = Prices("garbled", <<>>)],
     [GoodMarket EXCEPT !.id = 9, !.outcome = "absent"],
     [GoodMarket EXCEPT !.id = 10, !.liquidityClob = Num(0),
                        !.book = OrderBook(FALSE, <<>>, <<>>)]}

MarketLists == UNION {[1..n -> ScanMarkets] : n \in 0..MaxMarkets}

\* what the top-level fetch does on attempts 1, 2, 3
FetchOutcomes == [1..MAX_ATTEMPTS -> {"ok", "transient", "fatal"}]

ScanMarketsCall ==
    /\ scanIn = Idle
    /\ \E markets \in MarketLists, th \in Thresholds, fetch \in FetchOutcomes :
        LET in == [op |-> "scan_markets", markets |-> markets,
                   thresholds |-> th, fetch |-> fetch, now |-> 1]
            done == scan_markets(scanner, in)
        IN  /\ scanIn' = in
            /\ scanOut' = done.out
            /\ scanner' = done.scanner
            /\ UNCHANGED <<riskCall, tradeIn, calls, result, exception,
                           propagated, critIn, critOut>>
            /\ UNCHANGED <<history, fnCall, loop, cfg>>

NextScan == ScanMarketsCall

SpecScan == Init /\ [][NextScan]_vars

-----------------------------------------------------------------------------
(* scan_markets called again and again on the same scanner, the clock      *)
(* advancing by one from call to call.                                     *)

\* most calls made in a row
MaxCalls == 3

\* what the calls may meet: nothing listed, one or two good markets, a
\* fetch that fails three times, one that succeeds on the second attempt,
\* and a market whose details do not make a valid candidate
RepeatedScans ==
    LET scan(m, f) ==
            \* the defaults of the signature: 0.92, 0.99, 48.0 hours
            [op |-> "scan_markets", markets |-> m, fetch |-> f,
             thresholds |-> <<920, 990, 96>>, now |-> 0]
        ok == [n \in 1..MAX_ATTEMPTS |-> "ok"]
    IN  {scan(<<>>, ok), scan(<<GoodMarket>>, ok),
         scan(<<GoodMarket, [GoodMarket EXCEPT !.id = 11]>>, ok),
         scan(<<GoodMarket>>, [n \in 1..MAX_ATTEMPTS |-> "transient"]),
         scan(<<[GoodMarket EXCEPT !.id = 12]>>, [ok EXCEPT ![1] = "transient"]),
         scan(<<GoodMarket,
                [GoodMarket EXCEPT !.id = 5,
                     !.clobTokenIds = Tokens("encoded", TokenList(2))]>>, ok)}

ScanMarketsAgain ==
    /\ history.calls < MaxCalls
    /\ \E scan \in RepeatedScans :
        LET in == [scan EXCEPT !.now = history.calls + 1]
            done == scan_markets(scanner, in)
            returned == done.out.outcome = "returned"
        IN  /\ scanIn' = in
            /\ scanOut' = done.out
            /\ scanner' = done.scanner
            /\ history' = [calls |-> history.calls + 1,
                           returned |-> history.returned + IF returned THEN 1 ELSE 0,
                           latest |-> IF returned THEN done.out.markets
                                      ELSE history.latest,
                           before |-> scanner]
    /\ UNCHANGED <<riskVars, tradeVars, criteriaVars, fnCall, loop, cfg>>

NextRepeated == ScanMarketsAgain

SpecRepeated == Init /\ [][NextRepeated]_vars

-----------------------------------------------------------------------------
(* MarketScanner._categorize_market                                        *)

sports_keywords ==
    <<"sport", "game", "match", "team", "player", "nfl", "nba", "mlb", "nhl",
      "soccer", "football", "basketball", "baseball", "hockey", "championship",
      "tournament", "playoff", "super bowl", "world cup">>
politics_keywords ==
    <<"election", "president", "senate", "congress", "vote", "candidate",
      "democrat", "republican", "trump", "biden", "political", "policy">>
crypto_keywords ==
    <<"bitcoin", "btc", "ethereum", "eth", "crypto", "cryptocurrency",
      "blockchain", "defi", "nft", "token", "coin", "price", "market cap">>
economics_keywords ==
    <<"gdp", "inflation", "unemployment", "fed", "federal reserve",
      "interest rate", "economy", "economic", "recession", "gdp">>
entertainment_keywords ==
    <<"movie", "film", "oscar", "grammy", "award", "celebrity", "actor",
      "actress", "music", "album", "tv show", "television">>

\* the words of the modelled texts
Vocabulary ==
    {"NBA", "Bitcoin", "Trump", "whether", "teammate", "Oscar", "inflation",
     "rain", "super", "bowl"}

\* str.lower
Lower(word) ==
    CASE word = "NBA" -> "nba"
      [] word = "Bitcoin" -> "bitcoin"
      [] word = "Trump" -> "trump"
      [] word = "Oscar" -> "oscar"
      [] OTHER -> word

\* the one-word keywords that are substrings of a lowercased word
Substrings(word) ==
    CASE word = "nba" -> {"nba"}
      [] word = "bitcoin" -> {"bitcoin", "coin"}
      [] word = "trump" -> {"trump"}
      [] word = "whether" -> {"eth"}
      [] word = "teammate" -> {"team"}
      [] word = "oscar" -> {"oscar"}
      [] word = "inflation" -> {"inflation", "nfl"}
      [] OTHER -> {}

\* the two-word keywords that two neighbouring words, joined by one space,
\* contain
PairKeywords(left, right) ==
    IF left = "super" /\ right = "bowl" THEN {"super bowl"} ELSE {}

\* the words of one part of the text; an empty part is one empty word, so
\* that the parts of f"{question} {description} {tags}" stay one space apart
Part(words) ==
    IF words = <<>> THEN <<"">> ELSE [i \in DOMAIN words |-> Lower(words[i])]

\* "keyword in text"
Occurs(keyword, text) ==
    \/ \E i \in DOMAIN text : keyword \in Substrings(text[i])
    \/ \E i \in 1..(Len(text) - 1) : keyword \in PairKeywords(text[i], text[i + 1])

\* any(keyword in text for keyword in keywords)
AnyKeyword(keywords, text) ==
    \E k \in DOMAIN keywords : Occurs(keywords[k], text)

\* lines 533-555: the chain of checks
CategoryCryptoFirst(text) ==
    IF AnyKeyword(sports_keywords, text) THEN "sports"
    ELSE IF AnyKeyword(crypto_keywords, text) THEN "crypto"
    ELSE IF AnyKeyword(politics_keywords, text) THEN "politics"
    ELSE IF AnyKeyword(economics_keywords, text) THEN "economics"
    ELSE IF AnyKeyword(entertainment_keywords, text) THEN "entertainment"
    ELSE "other"
Category(text) ==
    IF AnyKeyword(sports_keywords, text) THEN "sports"
    ELSE IF AnyKeyword(politics_keywords, text) THEN "politics"
    ELSE IF AnyKeyword(crypto_keywords, text) THEN "crypto"
    ELSE IF AnyKeyword(economics_keywords, text) THEN "economics"
    ELSE IF AnyKeyword(entertainment_keywords, text) THEN "entertainment"
    ELSE "other"

\* lines 517-522: the text searched
CategoryText(market_data) ==
    Part(market_data.question) \o Part(market_data.description)
        \o Part(market_data.tags)

_categorize_market(market_data) == Category(CategoryText(market_data))

-----------------------------------------------------------------------------
(* OutcomeVerifier (outcome_verifier.py); confidence in thousandths        *)

SourceResult(verified, confidence, reasoning) ==
    [verified |-> verified, confidence |-> confidence, reasoning |-> reasoning]

\* "if not self.config.ODDS_API_KEY": None and "" are false
HasKey(key) == key = "set"

\* market.get("question", "").lower() raises for a market that is not a
\* dict and for a question that is None
_verify_with_sports_api(key, market) ==
    IF ~HasKey(key) THEN SourceResult(FALSE, 0, "No API key")
    ELSE IF market.kind # "dict"
    THEN SourceResult(FALSE, 0, "'NoneType' object has no attribute 'get'")
    ELSE IF market.question = "None"
    THEN SourceResult(FALSE, 0, "'NoneType' object has no attribute 'lower'")
    ELSE SourceResult(FALSE, 0, "Not a sports market")

_verify_with_news_api(key, market) ==
    IF ~HasKey(key) THEN SourceResult(FALSE, 0, "No API key")
    ELSE IF market.kind # "dict"
    THEN SourceResult(FALSE, 0, "'NoneType' object has no attribute 'get'")
    ELSE SourceResult(FALSE, 0, "Not implemented yet")

Verification(verified, confidence, sources, reasoning, consulted) ==
    [verified |-> verified, confidence |-> confidence, sources |-> sources,
     reasoning |-> reasoning, consulted |-> consulted]

\* lines 25-50: what verify_outcome makes of the two sources' results;
\* consulted lists the sources it called.  news_result is what the news
\* source answers if it is called.
CombineNewsFirst(sports_result, news_result) ==
    IF news_result.verified
    THEN Verification(TRUE, news_result.confidence, <<"news_api">>,
                      news_result.reasoning, <<"news_api">>)
    ELSE IF sports_result.verified
    THEN Verification(TRUE, sports_result.confidence, <<"sports_api">>,
                      sports_result.reasoning, <<"news_api", "sports_api">>)
    ELSE Verification(FALSE, 0, <<>>, "", <<"news_api", "sports_api">>)
Combine(sports_result, news_result) ==
    IF sports_result.verified
    THEN Verification(TRUE, sports_result.confidence, <<"sports_api">>,
                      sports_result.reasoning, <<"sports_api">>)
    ELSE IF news_result.verified
    THEN Verification(TRUE, news_result.confidence, <<"news_api">>,
                      news_result.reasoning, <<"sports_api", "news_api">>)
    ELSE Verification(FALSE, 0, <<>>, "", <<"sports_api", "news_api">>)

verify_outcome(keys, market) ==
    Combine(_verify_with_sports_api(keys.odds, market),
            _verify_with_news_api(keys.news, market))

-----------------------------------------------------------------------------
(* Calls of the functions that keep no state                               *)

\* longest outcome-price vector
MaxPrices == 3
\* most words of a question
MaxWords == 2

PriceVectors ==
    UNION {[1..n -> {50, 500, 950}] : n \in 1..MaxPrices}
\* the status flags of a detail record: <<active, closed, archived, funded>>
StatusFlags ==
    {<<"true", "false", "absent", "true">>, <<"false", "false", "absent", "true">>,
     <<"true", "true", "absent", "true">>, <<"true", "false", "true", "true">>,
     <<"true", "false", "absent", "absent">>}
\* a market that passes every other check, with each price vector, as a
\* list or as its JSON encoding, and each combination of status flags
DetailsMarkets ==
    {[GoodMarket EXCEPT !.outcomePrices = Prices(kind, v),
                        !.active = f[1], !.closed = f[2],
                        !.archived = f[3], !.funded = f[4]] :
        kind \in {"list", "encoded"}, v \in PriceVectors, f \in StatusFlags}

Questions == UNION {[1..n -> Vocabulary] : n \in 0..MaxWords}
CategoryMarkets ==
    [question : Questions, description : {<<>>, <<"bowl">>, <<"Trump">>},
     tags : {<<>>, <<"Oscar">>}]

\* the credentials as the configuration holds them
ApiKeys == [odds : {"none", "empty", "set"}, news : {"none", "empty", "set"}]
VerifierMarkets ==
    {[kind |-> "none", question |-> ""]}
        \cup {[kind |-> "dict", question |-> q] :
                  q \in {"", "None", "will the home team win the game",
                         "will it rain tomorrow"}}

FnRecord(op, in, out) == [op |-> op, in |-> in, out |-> out]

GetMarketDetails ==
    /\ fnCall = Idle
    /\ \E market_data \in DetailsMarkets :
        fnCall' = FnRecord("get_market_details", market_data,
                           get_market_details(market_data, SCANNER_MIN_LIQUIDITY))
    /\ UNCHANGED <<riskVars, tradeVars, criteriaVars, scanVars, loop, cfg>>

CategorizeMarket ==
    /\ fnCall = Idle
    /\ \E market_data \in CategoryMarkets :
        fnCall' = FnRecord("_categorize_market", market_data,
                           _categorize_market(market_data))
    /\ UNCHANGED <<riskVars, tradeVars, criteriaVars, scanVars, loop, cfg>>

VerifyOutcome ==
    /\ fnCall = Idle
    /\ \E keys \in ApiKeys, market \in VerifierMarkets :
        fnCall' = FnRecord("verify_outcome", [keys |-> keys, market |-> market],
                           verify_outcome(keys, market))
    /\ UNCHANGED <<riskVars, tradeVars, criteriaVars, scanVars, loop, cfg>>

NextFunctions ==
    \/ GetMarketDetails
    \/ CategorizeMarket
    \/ VerifyOutcome

SpecFunctions == Init /\ [][NextFunctions]_vars

-----------------------------------------------------------------------------
(* api_server.py: /start, /stop and the scan_loop thread, which runs       *)
(* MarketScanner.run_continuous_scan.  scanner and config were imported.   *)

\* config.scanner.time_to_resolution_hours: 48 hours
TIME_TO_RESOLUTION == 96

\* most scans the scanner's scan_count records
MaxScans == 2
\* most candidates one scan of the loop returns
MaxFound == 6

\* the listings a cycle of the loop may meet
LoopScans ==
    LET scan(m, f) ==
            [op |-> "scan_markets", markets |-> m,
             fetch |-> [n \in 1..MAX_ATTEMPTS |-> f],
             thresholds |-> <<MIN_PROBABILITY, MAX_PROBABILITY, TIME_TO_RESOLUTION>>,
             now |-> 1]
    IN  {scan(<<>>, "ok"),
         scan([i \in 1..MaxFound |-> [GoodMarket EXCEPT !.id = 10 + i]], "ok"),
         scan(<<>>, "transient"),
         scan(<<[GoodMarket EXCEPT !.id = 5,
                     !.clobTokenIds = Tokens("encoded", TokenList(2))]>>, "ok")}
\* config.SLACK_WEBHOOK_URL: not set, or set (send_slack_notification
\* swallows a failed delivery, utils.py lines 23-28)
SlackOutcomes == {"unset", "sent"}
\* the callback argument: not supplied, returning, or raising
Callbacks == {"none", "returns", "raises"}

\* "for m in candidates[:5]"
NOTIFICATION_ITEMS == 5

MarketIds(markets) == [k \in DOMAIN markets |-> markets[k].market_id]

\* lines 598-606: the message lists the first candidates
Notify(candidates, slack) ==
    IF slack = "unset" THEN <<>>
    ELSE <<[op |-> "notify",
            items |-> SubSeq(MarketIds(candidates), 1,
                             Min(NOTIFICATION_ITEMS, Len(candidates)))]>>

\* lines 609-614: callback(candidates) inside its own try
InvokeCallback(candidates, callback) ==
    IF callback = "none" THEN <<>>
    ELSE <<[op |-> "callback", items |-> MarketIds(candidates)]>>

\* the callback made whether or not there are candidates
CycleEventsAlways(candidates, slack, callback) ==
    (IF candidates = <<>> THEN <<>> ELSE Notify(candidates, slack))
        \o InvokeCallback(candidates, callback)
\* lines 592-616: what an iteration does with the candidates of its scan
CycleEvents(candidates, slack, callback) ==
    IF candidates = <<>> THEN <<>>
    ELSE Notify(candidates, slack) \o InvokeCallback(candidates, callback)

\* the iteration after scan_markets returned, up to the sleep of line 619;
\* an exception of the callback is logged at 611-614
CycleDone(wk, candidates, slack, callback) ==
    [wk EXCEPT !.pc = "sleep", !.after = "ok", !.slept = 0,
               !.cycle = [scanned |-> TRUE, found |-> MarketIds(candidates),
                          sink |-> slack, callback |-> callback,
                          events |-> CycleEvents(candidates, slack, callback)]]

Running(wk) == wk.pc \notin {"unstarted", "ended"}

\* lines 580-590: scan_markets raises; the candidate records are built from
\* dicts that scan_markets already validated (line 247)
CycleRaises(done) == done.out.outcome = "raised"

\* "except KeyboardInterrupt: break", and a KeyboardInterrupt raised while
\* the handler of line 624 sleeps: run_continuous_scan ends
Interrupted(wk) ==
    [wk EXCEPT !.pc = "exiting", !.exit = "interrupted", !.cycle = NoCycle]

\* "except Exception as e": log, then sleep (lines 624-627)
OnExceptionFatal(wk) ==
    [wk EXCEPT !.pc = "exiting", !.exit = "raised", !.after = "failed",
               !.slept = 0]
OnException(wk) ==
    [wk EXCEPT !.pc = "handler", !.after = "failed", !.slept = 0]

\* time.sleep(self.scan_interval) returned: back to "while True"
Slept(wk) ==
    [wk EXCEPT !.pc = "top", !.slept = Min(wk.slept + 1, 2), !.cycle = NoCycle]

\* POST /start
StartScanning ==
    /\ UNCHANGED <<riskVars, tradeVars, criteriaVars, scanVars, fnCall, cfg>>
    /\ IF loop.is_scanning
       THEN loop' = [loop EXCEPT !.reply = "scanning"]
       ELSE \E w \in Workers :
                /\ loop.workers[w].pc = "unstarted"
                /\ loop' = [loop EXCEPT !.is_scanning = TRUE,
                                        !.reply = "started",
                                        !.workers[w].pc = "top"]

\* POST /stop
StopScanning ==
    /\ UNCHANGED <<riskVars, tradeVars, criteriaVars, scanVars, fnCall, cfg>>
    /\ IF ~loop.is_scanning
       THEN loop' = [loop EXCEPT !.reply = "not scanning"]
       ELSE loop' = [loop EXCEPT
                !.is_scanning = FALSE,
                !.reply = "stopped",
                !.workers = [w \in Workers |->
                    IF Running(loop.workers[w])
                    THEN [loop.workers[w] EXCEPT !.stopped = TRUE]
                    ELSE loop.workers[w]]]

\* "while True": the thread enters the next cycle
StartCycle(w) ==
    /\ loop.workers[w].pc = "top"
    /\ loop' = [loop EXCEPT !.workers[w].pc = "in_cycle"]
    /\ UNCHANGED <<riskVars, tradeVars, criteriaVars, scanVars, fnCall, cfg>>

\* the try block of lines 579-616 up to the sleep
FinishCycle(w) ==
    /\ loop.workers[w].pc = "in_cycle"
    /\ \/ /\ loop' = [loop EXCEPT !.workers[w] = Interrupted(@)]
          /\ UNCHANGED scanner
       \/ \E in \in LoopScans :
            LET wk == loop.workers[w]
                done == scan_markets(scanner, in)
            IN  /\ scanner' = [done.scanner EXCEPT
                                   !.scan_count = Min(@, MaxScans)]
                /\ IF CycleRaises(done)
                   THEN loop' = [loop EXCEPT !.workers[w] = OnException(wk)]
                   ELSE \E slack \in SlackOutcomes, callback \in Callbacks :
                            /\ done.out.markets = <<>> => callback # "raises"
                            /\ loop' = [loop EXCEPT !.workers[w] =
                                   CycleDone(wk, done.out.markets, slack, callback)]
    /\ UNCHANGED <<riskVars, tradeVars, criteriaVars, scanIn, scanOut, history,
                   fnCall, cfg>>

\* line 619: time.sleep(self.scan_interval) after a cycle that succeeded
Sleep(w) ==
    /\ loop.workers[w].pc = "sleep"
    /\ \E interrupt \in BOOLEAN :
        loop' = [loop EXCEPT !.workers[w] =
                    IF interrupt THEN Interrupted(@) ELSE Slept(@)]
    /\ UNCHANGED <<riskVars, tradeVars, criteriaVars, scanVars, fnCall, cfg>>

\* line 627: time.sleep(self.scan_interval) in the exception handler
HandlerSleep(w) ==
    /\ loop.workers[w].pc = "handler"
    /\ \E interrupt \in BOOLEAN :
        loop' = [loop EXCEPT !.workers[w] =
                    IF interrupt THEN Interrupted(@) ELSE Slept(@)]
    /\ UNCHANGED <<riskVars, tradeVars, criteriaVars, scanVars, fnCall, cfg>>

\* scan_loop's "finally: is_scanning = False" when run_continuous_scan ends
ThreadExit(w) ==
    /\ loop.workers[w].pc = "exiting"
    /\ loop' = [loop EXCEPT !.is_scanning = FALSE, !.workers[w].pc = "ended"]
    /\ UNCHANGED <<riskVars, tradeVars, criteriaVars, scanVars, fnCall, cfg>>

WorkerStep(w) ==
    \/ StartCycle(w)
    \/ FinishCycle(w)
    \/ Sleep(w)
    \/ HandlerSleep(w)
    \/ ThreadExit(w)

NextLoop ==
    \/ StartScanning
    \/ StopScanning
    \/ \E w \in Workers : WorkerStep(w)

SpecLoop == Init /\ [][NextLoop]_vars

\* every started thread is scheduled again and again
FairLoop == SpecLoop /\ \A w \in Workers : WF_vars(WorkerStep(w))

-----------------------------------------------------------------------------
(* config.py: ScannerConfig, PositionConfig, MainConfig, ConfigSingleton.  *)
(* An environment gives the five settings the cross-field rules read; the  *)
(* other settings keep valid values.                                       *)

\* Field(ge=0.0, le=1.0) of the probabilities, Field(ge=1.0) of the sizes
PROBABILITY_LE == 1000
POSITION_GE == 100
\* the defaults the root validators fall back on for a missing value
DEFAULT_MAX_POSITION == 100000
DEFAULT_MAX_EXPOSURE == 1000000

\* most configuration instances created by one process
MaxConfigs == 3

Envs ==
    [min_probability : {920, 990, 1100}, max_probability : {920, 990},
     min_market_liquidity_usd : {99900, 100000, 500000},
     max_position_size_usd : {50, 100000, 600000},
     max_total_exposure_usd : {100000, 1000000}]
DefaultEnv ==
    [min_probability |-> MIN_PROBABILITY, max_probability |-> MAX_PROBABILITY,
     min_market_liquidity_usd |-> MIN_LIQUIDITY,
     max_position_size_usd |-> DEFAULT_MAX_POSITION,
     max_total_exposure_usd |-> DEFAULT_MAX_EXPOSURE]
\* the environments a reload may find
ReloadEnvs ==
    {DefaultEnv,
     [DefaultEnv EXCEPT !.max_position_size_usd = 600000],
     [DefaultEnv EXCEPT !.min_probability = 990],
     [DefaultEnv EXCEPT !.max_total_exposure_usd = 100000,
                        !.max_position_size_usd = 600000]}
\* what BaseModel.validate, inherited from pydantic and called here without
\* an argument, does in the installed pydantic
Builds == {"returns", "raises"}

Accepted == [ok |-> TRUE, exc |-> ""]
Rejected(e) == [ok |-> FALSE, exc |-> e]

\* lines 35-46 and 65-76: field bounds, then the root validator, which
\* reads a value that failed its field check as its default
ScannerConfig(env) ==
    LET min_ok == 0 <= env.min_probability /\ env.min_probability <= PROBABILITY_LE
        max_ok == 0 <= env.max_probability /\ env.max_probability <= PROBABILITY_LE
        min_prob == IF min_ok THEN env.min_probability ELSE MIN_PROBABILITY
        max_prob == IF max_ok THEN env.max_probability ELSE MAX_PROBABILITY
    IN  IF ~min_ok \/ ~max_ok \/ env.min_market_liquidity_usd < 0
        THEN Rejected("ValidationError: field out of range")
        ELSE IF min_prob >= max_prob
        THEN Rejected("ValidationError: min_probability must be less than max_probability")
        ELSE Accepted

\* lines 84-93 and 113-123
PositionConfig(env) ==
    LET pos_ok == env.max_position_size_usd >= POSITION_GE
        total_ok == env.max_total_exposure_usd >= POSITION_GE
        max_pos == IF pos_ok THEN env.max_position_size_usd ELSE DEFAULT_MAX_POSITION
        max_total == IF total_ok THEN env.max_total_exposure_usd ELSE DEFAULT_MAX_EXPOSURE
    IN  IF ~pos_ok \/ ~total_ok
        THEN Rejected("ValidationError: field out of range")
        ELSE IF max_pos > max_total
        THEN Rejected("ValidationError: max_position_size_usd cannot exceed max_total_exposure_usd")
        ELSE Accepted

\* MainConfig.from_env: the scanner section is built before the position
\* section
from_env(env) ==
    IF ~ScannerConfig(env).ok THEN ScannerConfig(env) ELSE PositionConfig(env)

\* lines 556-561
CrossCheckOff(env) == FALSE
CrossCheck(env) == env.min_market_liquidity_usd < env.max_position_size_usd

\* MainConfig.validate: the sections' validate(), then the cross check,
\* every exception turned into a ConfigValidationError
validate(build, env) ==
    IF build = "raises"
    THEN Rejected("ConfigValidationError: validate() missing 1 required positional argument")
    ELSE IF CrossCheck(env)
    THEN Rejected("ConfigValidationError: min_market_liquidity_usd should be >= max_position_size_usd")
    ELSE Accepted

\* MainConfig.from_env() followed by validate(), as ConfigSingleton does
Load(build, env) ==
    LET built == from_env(env)
        checked == IF built.ok THEN validate(build, env) ELSE built
    IN  [env |-> env, built |-> built.ok,
         outcome |-> IF checked.ok THEN "accepted" ELSE "rejected",
         exc |-> checked.exc]

ConfigInstance(id, env) == [id |-> id, values |-> env]

\* importing config.py: _config_singleton = ConfigSingleton() and
\* config = _config_singleton.config (lines 632-640); an exception leaves
\* the module unimported
ImportConfig ==
    /\ ~cfg.imported
    /\ \E build \in Builds, env \in Envs :
        /\ cfg.build \in {"none", build}
        /\ LET load == Load(build, env)
           IN  cfg' = IF load.outcome = "accepted"
                      THEN [cfg EXCEPT !.imported = TRUE, !.build = build,
                                       !._config = ConfigInstance(1, env),
                                       !.module_config = ConfigInstance(1, env),
                                       !.created = 1,
                                       !.lastLoad = [env |-> env,
                                                     outcome |-> load.outcome,
                                                     exc |-> load.exc]]
                      ELSE [cfg EXCEPT !.build = build,
                                       !.lastLoad = [env |-> env,
                                                     outcome |-> load.outcome,
                                                     exc |-> load.exc]]
    /\ UNCHANGED <<riskVars, tradeVars, criteriaVars, scanVars, fnCall, loop>>

\* get_config(): _config_singleton.config
GetConfig ==
    /\ cfg.imported
    /\ cfg' = [cfg EXCEPT !.prevGet = cfg.lastGet, !.lastGet = cfg._config]
    /\ UNCHANGED <<riskVars, tradeVars, criteriaVars, scanVars, fnCall, loop>>

\* ConfigSingleton().get_scanner() and the like: __new__ returns the one
\* instance, __init__ skips the load, the section of _config is returned
Accessor ==
    /\ cfg.imported
    /\ cfg' = [cfg EXCEPT !.accessed = cfg._config.id]
    /\ UNCHANGED <<riskVars, tradeVars, criteriaVars, scanVars, fnCall, loop>>

\* ConfigSingleton.reload(): _config is assigned before it is validated
Reload ==
    /\ cfg.imported
    /\ cfg.created < MaxConfigs
    /\ \E env \in ReloadEnvs :
        LET load == Load(cfg.build, env)
        IN  cfg' = [cfg EXCEPT
                !._config = IF load.built
                            THEN ConfigInstance(cfg.created + 1, env)
                            ELSE cfg._config,
                !.created = IF load.built THEN cfg.created + 1 ELSE cfg.created,
                !.lastLoad = [env |-> env, outcome |-> load.outcome,
                              exc |-> load.exc]]
    /\ UNCHANGED <<riskVars, tradeVars, criteriaVars, scanVars, fnCall, loop>>

NextConfig ==
    \/ ImportConfig
    \/ GetConfig
    \/ Accessor
    \/ Reload

SpecConfig == Init /\ [][NextConfig]_vars

-----------------------------------------------------------------------------
(* Properties of execute_trade (specification Spec)                        *)

HasCall(op) == \E i \in DOMAIN calls : calls[i].op = op

\* liquidity, treated as 0 when absent, is a number below the minimum
LowLiquidity(market) ==
    \/ market.liquidity.kind = "absent"
    \/ market.liquidity.kind = "num" /\ market.liquidity.v < MIN_LIQUIDITY

\* C1: execute_market_order is invoked only after calculate_position_size
\* returned a non-zero size, the four risk limits hold for that size
\* (liquidity >= minimum, size <= maximum, balance read >= 1.10 x size,
\* spread <= 0.05) and a token was resolved for outcome_index; the balance
\* read and the price fetch of that token precede the order.
C1_OrderOnlyAfterGates ==
    \A i \in DOMAIN calls :
        calls[i].op = "execute_market_order" =>
            LET m == tradeIn.market
                amt == calls[i].amount
                tok == m.clob_token_ids
            IN  /\ amt # 0
                /\ amt = calculate_position_size(m, tradeIn.probability).size
                /\ m.liquidity.kind = "num" /\ m.liquidity.v >= MIN_LIQUIDITY
                /\ amt <= MAX_POSITION_SIZE
                /\ tradeIn.balance.ok /\ 10 * tradeIn.balance.value >= 11 * amt
                /\ m.spread.kind = "num" /\ m.spread.v <= MAX_SPREAD
                /\ tok.kind = "encoded"
                /\ IndexInRange(tok.ids, tradeIn.outcome_index)
                /\ i = 3
                /\ calls[1].op = "get_usdc_balance"
                /\ calls[2].op = "get_orderbook_price"
                /\ calls[2].token = PyIndex(tok.ids, tradeIn.outcome_index)

\* an order was submitted with the smallest balance the gate accepts
C1_Witness ==
    /\ HasCall("execute_market_order")
    /\ result.success
    /\ 10 * tradeIn.balance.value = 11 * result.position_size

\* C2: for a candidate whose liquidity is below the minimum, whatever the
\* outcome_index and probability, execute_trade returns success=false with
\* error "Position size is zero" and calls neither the balance fetch nor the
\* order submission.
C2_LowLiquidityNoOrder ==
    (tradeIn # Idle /\ LowLiquidity(tradeIn.market)) =>
        /\ ~propagated
        /\ result = [success |-> FALSE, order_id |-> NoneId,
                     error |-> ErrorText("Position size is zero"),
                     position_size |-> 0]
        /\ ~HasCall("get_usdc_balance")
        /\ ~HasCall("execute_market_order")
        /\ calls = <<>>

\* liquidity one cent below the minimum, everything else fit for a trade
C2_Witness ==
    /\ tradeIn # Idle
    /\ tradeIn.market.liquidity = Num(MIN_LIQUIDITY - 1)
    /\ tradeIn.probability = 955
    /\ tradeIn.market.spread = Num(50)
    /\ tradeIn.market.clob_token_ids.kind = "encoded"
    /\ tradeIn.outcome_index = 0
    /\ tradeIn.balance = BalanceOk(110000)
    /\ result.error.msg = "Position size is zero"

\* C3: execute_trade never lets an exception reach its caller: whenever a
\* step raises, the call returns success=false with error = the exception's
\* text.
C3_NoExceptionEscapes ==
    /\ ~propagated
    /\ exception.step # "" =>
           result = [success |-> FALSE, order_id |-> NoneId,
                     error |-> ErrorText(exception.exc), position_size |-> 0]
    /\ (HasCall("get_orderbook_price") /\ ~tradeIn.price.ok) =>
           /\ exception = [step |-> "price", exc |-> tradeIn.price.exc]
           /\ ~HasCall("execute_market_order")
    /\ (HasCall("execute_market_order") /\ ~tradeIn.order.ok) =>
           exception = [step |-> "order", exc |-> tradeIn.order.exc]
    /\ (tradeIn # Idle /\ tradeIn.market.liquidity.kind = "null") =>
           exception.step = "sizing"

\* the order submission raised and the call returned the failure
C3_Witness ==
    /\ exception.step = "order"
    /\ ~result.success
    /\ result.error.msg = "order rejected"

\* C4: every result is either a failure (success=false, order_id null,
\* position_size 0, error set) or a success (success=true, error null,
\* order_id = the value the order submission returned, position_size = the
\* size computed by calculate_position_size, > 0).
C4_ResultShape ==
    tradeIn # Idle =>
        \/ /\ ~result.success
           /\ result.order_id = NoneId
           /\ result.position_size = 0
           /\ ~result.error.isNone
        \/ /\ result.success
           /\ result.error.isNone
           /\ tradeIn.order.ok
           /\ result.order_id = tradeIn.order.id
           /\ result.position_size =
                  calculate_position_size(tradeIn.market, tradeIn.probability).size
           /\ result.position_size > 0

\* a failure after the size was computed and the order attempted
C4_Witness ==
    /\ \E i \in DOMAIN calls :
           calls[i].op = "execute_market_order" /\ calls[i].amount > 0
    /\ ~result.success
    /\ result.position_size = 0

\* sizing and the risk gate pass for this call
GatesPass(in) ==
    LET sized == calculate_position_size(in.market, in.probability)
        risk == check_risk_limits(in.market, sized.size, in.balance)
    IN  ~sized.raised /\ sized.size # 0 /\ ~risk.raised /\ risk.approved

\* C5: when sizing and the risk gate pass but the candidate has no token
\* identifiers, or outcome_index is outside 0..n-1 for its n identifiers,
\* execute_trade returns success=false with error "Invalid token ID" and
\* submits no order.
C5_InvalidTokenRejected ==
    LET tok == tradeIn.market.clob_token_ids
    IN  (/\ tradeIn # Idle
         /\ GatesPass(tradeIn)
         /\ \/ tok.kind \in {"absent", "null"}
            \/ tok.kind = "encoded" /\ tok.ids = <<>>
            \/ /\ tok.kind \in {"encoded", "list"}
               /\ tradeIn.outcome_index \notin 0..(Len(tok.ids) - 1))
        => /\ result = [success |-> FALSE, order_id |-> NoneId,
                        error |-> ErrorText("Invalid token ID"),
                        position_size |-> 0]
           /\ ~HasCall("execute_market_order")

-----------------------------------------------------------------------------
(* Properties of the risk manager (specification SpecRisk)                 *)

ReasonKinds(reasons) == [i \in 1..Len(reasons) |-> reasons[i].kind]

C7_ZeroBelowLiquidityFloor ==
    (riskCall.op = "calculate_position_size" /\ LowLiquidity(riskCall.market)) =>
        riskCall.size = [raised |-> FALSE, exc |-> "", size |-> 0]

\* liquidity a cent below the minimum with a probability above the band
C7_Witness ==
    /\ riskCall.op = "calculate_position_size"
    /\ riskCall.market.liquidity = Num(MIN_LIQUIDITY - 1)
    /\ riskCall.probability > MAX_PROBABILITY
    /\ riskCall.size.size = 0

\* the raw size base x probability_multiplier x liquidity_multiplier is below
\* 10.00: with p in thousandths and l in cents,
\*   1000 x (p - 920)/70 x min(l, 1000000)/1000000 < 10
\*   <=>  (p - 920) x min(l, 1000000) < 700000
RawBelowTen(p, l) == (p - 920) * Min(l, 1000000) < 700000

\* C8: for every liquidity and probability the returned size is 0 or lies in
\* [10, maximum position size]; it is 0 whenever the raw size is below 10,
\* never negative, never above the maximum after rounding.
C8_SizeZeroOrInRange ==
    riskCall.op = "calculate_position_size" =>
        LET s == riskCall.size.size
            liq == IF riskCall.market.liquidity.kind = "absent" THEN 0
                   ELSE riskCall.market.liquidity.v
        IN  /\ ~riskCall.size.raised
            /\ s >= 0
            /\ s = 0 \/ (1000 <= s /\ s <= MAX_POSITION_SIZE)
            /\ RawBelowTen(riskCall.probability, liq) => s = 0

\* a probability above the band, where the multiplier exceeds 1 and the
\* size is cut to the maximum
C8_Witness ==
    /\ riskCall.op = "calculate_position_size"
    /\ riskCall.probability > MAX_PROBABILITY
    /\ riskCall.market.liquidity = Num(1500000)
    /\ riskCall.size.size = MAX_POSITION_SIZE

-----------------------------------------------------------------------------
(* Properties of check_market_criteria (specification SpecCriteria)        *)

\* the liquidity the market reports: liquidityClob unless it is missing or
\* 0, else liquidity; -1 when neither field is present
ReportedLiquidity(market) ==
    IF market.liquidityClob.kind = "num" /\ market.liquidityClob.v # 0
    THEN market.liquidityClob.v
    ELSE IF market.liquidity.kind = "num" THEN market.liquidity.v
    ELSE IF market.liquidityClob.kind = "num" THEN market.liquidityClob.v
    ELSE -1

\* the market violates at least one of the ten criteria
ViolatesCriteria(in) ==
    LET m == in.market
        p == m.outcomePrices
        present == p.kind \in {"list", "encoded"} /\ Len(p.prices) >= 2
        end == IF m.endDate.kind # "absent" THEN m.endDate ELSE m.endDateIso
        dated == end.kind \in {"iso", "date"}
    IN  \/ m.active # "true"
        \/ m.closed = "true"
        \/ m.archived = "true"
        \/ m.funded # "true"
        \/ ~present
        \/ present /\ \E i \in DOMAIN p.prices :
               /\ \A j \in DOMAIN p.prices : p.prices[j] <= p.prices[i]
               /\ (p.prices[i] < in.min_prob \/ p.prices[i] > in.max_prob)
        \/ end.kind = "absent"
        \/ dated /\ end.diff < 0
        \/ dated /\ end.diff > in.time_window_hours
        \/ ReportedLiquidity(m) >= 0 /\ ReportedLiquidity(m) < SCANNER_MIN_LIQUIDITY

\* C9: check_market_criteria returns (false, non-empty reason) for every
\* market that violates at least one criterion (status flags, price vector,
\* probability band, end date present / not past / within the window,
\* liquidity not below the minimum), a reported liquidity of 0 included.
C9_ViolationRejected ==
    (critIn # Idle /\ ViolatesCriteria(critIn)) =>
        (~critOut.qualifies /\ critOut.reason # "")

\* the only violation is a reported liquidity of 0, and the market qualifies
C9_ZeroLiquidityQualifies ==
    /\ critIn # Idle
    /\ ReportedLiquidity(critIn.market) = 0
    /\ critOut.qualifies

\* C9 without its last clause: a violation other than a reported liquidity
\* of exactly 0 is rejected with a non-empty reason
C9_ViolationRejectedUnlessZeroLiquidity ==
    (critIn # Idle /\ ViolatesCriteria(critIn)
        /\ ReportedLiquidity(critIn.market) # 0) =>
        (~critOut.qualifies /\ critOut.reason # "")

-----------------------------------------------------------------------------
(* Properties of scan_markets (specification SpecScan)                     *)

\* the top-level fetch succeeds within the retry policy
FetchSucceeds(fetch) ==
    \E n \in 1..MAX_ATTEMPTS :
        fetch[n] = "ok" /\ \A k \in 1..(n - 1) : fetch[k] = "transient"

\* market i passed the criteria and has a detail record
Kept(in, i) ==
    /\ check_market_criteria(in.markets[i], in.thresholds[1], in.thresholds[2],
                             in.thresholds[3], SCANNER_MIN_LIQUIDITY).qualifies
    /\ get_market_details(in.markets[i], SCANNER_MIN_LIQUIDITY).kind = "dict"

RECURSIVE KeptIds(_, _)
KeptIds(in, i) ==
    IF i > Len(in.markets) THEN <<>>
    ELSE (IF Kept(in, i) THEN <<in.markets[i].id>> ELSE <<>>) \o KeptIds(in, i + 1)

\* C10: an error while checking, fetching or parsing one market (in
\* check_market_criteria, in get_market_details, or when its candidate
\* record is built from its details) excludes only that market: once the
\* listing was fetched the scan returns normally, with every other market
\* that passed the criteria and has a detail record.
C10_PerMarketErrorIsolated ==
    (scanIn # Idle /\ FetchSucceeds(scanIn.fetch)) =>
        /\ scanOut.outcome = "returned"
        /\ \A i \in DOMAIN scanIn.markets :
               (Kept(scanIn, i) /\ CandidateValid(
                    get_market_details(scanIn.markets[i], SCANNER_MIN_LIQUIDITY)))
               => \E k \in DOMAIN scanOut.markets :
                      scanOut.markets[k].market_id = scanIn.markets[i].id

\* C10 for the errors the two callees catch themselves: when every detail
\* record builds a valid candidate, the scan returns exactly the markets
\* that passed the criteria and have a detail record, in listing order
C10_CalleeErrorsIsolated ==
    (/\ scanIn # Idle
     /\ FetchSucceeds(scanIn.fetch)
     /\ \A i \in DOMAIN scanIn.markets :
            Kept(scanIn, i) =>
                CandidateValid(get_market_details(scanIn.markets[i],
                                                  SCANNER_MIN_LIQUIDITY)))
    => /\ scanOut.outcome = "returned"
       /\ [k \in DOMAIN scanOut.markets |-> scanOut.markets[k].market_id]
              = KeptIds(scanIn, 1)

\* the first attempt whose fetch is not a transient failure, 0 when all
\* MAX_ATTEMPTS fetches fail transiently
FirstSettled(fetch) ==
    IF \A n \in DOMAIN fetch : fetch[n] = "transient" THEN 0
    ELSE CHOOSE n \in DOMAIN fetch :
             /\ fetch[n] # "transient"
             /\ \A k \in 1..(n - 1) : fetch[k] = "transient"

\* C11: a transient failure of the listing fetch is re-attempted, at most
\* MAX_ATTEMPTS attempts per call; when an attempt's fetch succeeds the scan
\* returns normally; when all attempts fail the network error reaches the
\* caller; an error that is not a transient network error reaches the
\* caller at once, with no further attempt.
C11_RetryThenComplete ==
    scanIn # Idle =>
        LET n == FirstSettled(scanIn.fetch)
        IN  /\ scanOut.attempts <= MAX_ATTEMPTS
            /\ n = 0 => /\ scanOut.outcome = "raised"
                        /\ scanOut.exc = "httpx.ConnectError"
                        /\ scanOut.attempts = MAX_ATTEMPTS
            /\ (n # 0 /\ scanIn.fetch[n] = "ok") =>
                   /\ scanOut.outcome = "returned"
                   /\ scanOut.attempts = n
            /\ (n # 0 /\ scanIn.fetch[n] = "fatal") =>
                   /\ scanOut.outcome = "raised"
                   /\ scanOut.exc = "RuntimeError"
                   /\ scanOut.attempts = n

\* C11 without the normal completion: the number of attempts and the error
\* that reaches the caller are as stated, and after a successful fetch the
\* only error is the one raised while the candidate records are built
C11_AttemptsAsStated ==
    scanIn # Idle =>
        LET n == FirstSettled(scanIn.fetch)
        IN  /\ scanOut.attempts = (IF n = 0 THEN MAX_ATTEMPTS ELSE n)
            /\ n = 0 => scanOut.exc = "httpx.ConnectError"
            /\ (n # 0 /\ scanIn.fetch[n] = "fatal") => scanOut.exc = "RuntimeError"
            /\ (n # 0 /\ scanIn.fetch[n] = "ok") =>
                   \/ scanOut.outcome = "returned"
                   \/ scanOut.exc = "ValidationError"

\* a scan that succeeded on a re-attempt after a transient failure
C11_RetriedThenFetched ==
    /\ scanIn # Idle
    /\ scanIn.fetch[1] = "transient" /\ scanIn.fetch[2] = "ok"
    /\ scanOut.attempts = 2

\* C12: every candidate scan_markets returns, and every candidate in the
\* scanner's cached qualified_markets, has is_qualified true, whatever the
\* caller's min_prob, max_prob and time_window_hours and whatever the
\* market's liquidity.
C12_ReturnedAreQualified ==
    /\ scanOut # Idle /\ scanOut.outcome = "returned" =>
           \A k \in DOMAIN scanOut.markets : scanOut.markets[k].is_qualified
    /\ \A k \in DOMAIN scanner.qualified_markets :
           scanner.qualified_markets[k].is_qualified

-----------------------------------------------------------------------------
(* Properties of the continuous scan (specification FairLoop)              *)

\* the cycle of thread w just failed with an exception other than a
\* KeyboardInterrupt, and the thread has not slept since
CycleFailed(w) ==
    /\ loop.workers[w].after = "failed"
    /\ loop.workers[w].slept = 0
    /\ loop.workers[w].exit # "interrupted"

\* C13: a cycle of run_continuous_scan in which scan_markets or the
\* processing of its result raises an exception other than an explicit
\* cancellation does not end the loop: the loop sleeps scan_interval once
\* and then starts another cycle, however many cycles failed before
\* (unless the thread is interrupted while it sleeps).
C13_FailedCycleRetried ==
    \A w \in Workers :
        CycleFailed(w) ~>
            \/ /\ loop.workers[w].pc = "in_cycle"
               /\ loop.workers[w].after = "failed"
               /\ loop.workers[w].slept = 1
            \/ loop.workers[w].exit = "interrupted"

\* a thread in a new cycle after a failed cycle and one sleep, the scanner
\* having counted MaxScans scans
C13_Witness ==
    \E w \in Workers :
        /\ loop.workers[w].pc = "in_cycle"
        /\ loop.workers[w].after = "failed"
        /\ loop.workers[w].slept = 1
        /\ scanner.scan_count = MaxScans

\* C14: once /stop has cleared is_scanning, each thread that was running
\* the loop finishes the cycle in flight, sees the flag between cycles and
\* stops: eventually it starts no further cycle.
C14_StopEndsWorker ==
    \A w \in Workers :
        loop.workers[w].stopped ~> loop.workers[w].pc = "ended"

-----------------------------------------------------------------------------
(* Properties of the functions that keep no state (SpecFunctions)          *)

\* C15: for every outcome-price vector of length >= 2 that
\* get_market_details processes, winning_probability is the largest price
\* and winning_outcome_index is the smallest (0-based) index holding it.
C15_WinnerIsFirstMaximum ==
    (fnCall.op = "get_market_details" /\ Len(fnCall.in.outcomePrices.prices) >= 2) =>
        LET prices == fnCall.in.outcomePrices.prices
            out == fnCall.out
        IN  /\ out.kind = "dict"
            /\ \E i \in DOMAIN prices : prices[i] = out.winning_probability
            /\ \A i \in DOMAIN prices : prices[i] <= out.winning_probability
            /\ prices[out.winning_outcome_index + 1] = out.winning_probability
            /\ \A i \in 1..out.winning_outcome_index :
                   prices[i] < out.winning_probability

\* a vector whose largest price occurs twice, not at the first position
C15_Witness ==
    /\ fnCall.op = "get_market_details"
    /\ fnCall.in.outcomePrices.prices = <<50, 950, 950>>
    /\ fnCall.out.kind = "dict"
    /\ fnCall.out.winning_outcome_index = 1

CategoryOrder == <<"sports", "politics", "crypto", "economics", "entertainment">>
CategoryKeywords(category) ==
    CASE category = "sports" -> sports_keywords
      [] category = "politics" -> politics_keywords
      [] category = "crypto" -> crypto_keywords
      [] category = "economics" -> economics_keywords
      [] category = "entertainment" -> entertainment_keywords
\* positions in CategoryOrder of the categories with a keyword in the text
Matching(text) ==
    {c \in DOMAIN CategoryOrder :
        \E k \in DOMAIN CategoryKeywords(CategoryOrder[c]) :
            Occurs(CategoryKeywords(CategoryOrder[c])[k], text)}

\* C16: _categorize_market returns the first category, in the order
\* sports, politics, crypto, economics, entertainment, one of whose
\* keywords occurs in the lowercased question + description + tags text,
\* and "other" exactly when no keyword of any category occurs.
C16_FirstMatchingCategory ==
    fnCall.op = "_categorize_market" =>
        LET found == Matching(CategoryText(fnCall.in))
        IN  /\ found = {} <=> fnCall.out = "other"
            /\ found # {} =>
                   \E c \in found : /\ fnCall.out = CategoryOrder[c]
                                    /\ \A d \in found : c <= d

\* a text with a politics keyword before a crypto keyword and no sports one
C16_Witness ==
    /\ fnCall.op = "_categorize_market"
    /\ fnCall.in.question = <<"Bitcoin", "Trump">>
    /\ fnCall.in.description = <<>>
    /\ fnCall.out = "politics"

\* results a source could hand to verify_outcome
SourceResults ==
    {SourceResult(v, c, r) : v \in BOOLEAN, c \in {0, 900},
                             r \in {"from sports", "from news"}}

\* C17: verify_outcome consults the sports source first and the news source
\* second; the first source that answers verified ends the call (news is
\* not consulted after a verified sports result) and the result is
\* verified with that source's confidence and reasoning and exactly that
\* source's name in sources; if neither verifies the result is unverified,
\* confidence 0, no sources.  A source without credential or with an error
\* answers not verified, and the call returns a result.
C17_FirstVerifiedSourceWins ==
    /\ \A sr \in SourceResults, nr \in SourceResults :
           LET out == Combine(sr, nr)
           IN  /\ out.consulted[1] = "sports_api"
               /\ sr.verified =>
                      /\ out.consulted = <<"sports_api">>
                      /\ out.verified /\ out.sources = <<"sports_api">>
                      /\ out.confidence = sr.confidence
                      /\ out.reasoning = sr.reasoning
               /\ (~sr.verified /\ nr.verified) =>
                      /\ out.consulted = <<"sports_api", "news_api">>
                      /\ out.verified /\ out.sources = <<"news_api">>
                      /\ out.confidence = nr.confidence
                      /\ out.reasoning = nr.reasoning
               /\ (~sr.verified /\ ~nr.verified) =>
                      /\ ~out.verified /\ out.confidence = 0
                      /\ out.sources = <<>>
    /\ fnCall.op = "verify_outcome" =>
           LET in == fnCall.in
               failing == \/ in.keys.odds # "set" \/ in.keys.news # "set"
                          \/ in.market.kind # "dict"
                          \/ in.market.question = "None"
           IN  /\ fnCall.out.consulted = <<"sports_api", "news_api">>
               /\ failing => /\ ~fnCall.out.verified
                             /\ fnCall.out.confidence = 0
                             /\ fnCall.out.sources = <<>>

\* the sports source fails on a question that is None, the news source has
\* no credential
C17_Witness ==
    /\ fnCall.op = "verify_outcome"
    /\ fnCall.in.keys.odds = "set" /\ fnCall.in.keys.news = "none"
    /\ fnCall.in.market.kind = "dict" /\ fnCall.in.market.question = "None"
    /\ ~fnCall.out.verified

-----------------------------------------------------------------------------
(* Properties of the configuration provider (specification SpecConfig)     *)

\* the three cross-field rules
RulesHold(env) ==
    /\ env.min_probability < env.max_probability
    /\ env.max_position_size_usd <= env.max_total_exposure_usd
    /\ env.min_market_liquidity_usd >= env.max_position_size_usd

\* C18: every configuration the provider accepts (it is constructed and
\* MainConfig.validate succeeds) has min_probability < max_probability,
\* max_position_size_usd <= max_total_exposure_usd and
\* min_market_liquidity_usd >= max_position_size_usd; one that breaks a
\* rule is rejected with a validation error.
C18_AcceptedConfigKeepsRules ==
    cfg.lastLoad.outcome # "none" =>
        /\ cfg.lastLoad.outcome = "accepted" => RulesHold(cfg.lastLoad.env)
        /\ ~RulesHold(cfg.lastLoad.env) =>
               /\ cfg.lastLoad.outcome = "rejected"
               /\ cfg.lastLoad.exc # ""

\* a configuration that breaks only the liquidity rule, rejected by the
\* cross check of MainConfig.validate
C18_Witness ==
    /\ cfg.lastLoad.outcome = "rejected"
    /\ cfg.lastLoad.env.min_probability < cfg.lastLoad.env.max_probability
    /\ cfg.lastLoad.env.max_position_size_usd
           <= cfg.lastLoad.env.max_total_exposure_usd
    /\ cfg.lastLoad.env.min_market_liquidity_usd
           < cfg.lastLoad.env.max_position_size_usd
    /\ cfg.build = "returns"

\* C19: after any sequence of get_config(), accessor and reload() calls,
\* any two get_config() calls return the identical instance, and it is the
\* module-level config object.
C19_OneConfigInstance ==
    cfg.lastGet # NoConfig =>
        /\ cfg.lastGet.id = cfg.module_config.id
        /\ cfg.prevGet # NoConfig => cfg.prevGet.id = cfg.lastGet.id

\* C19 while no reload has replaced the instance
C19_OneInstanceUntilReload ==
    (cfg.lastGet # NoConfig /\ cfg.created = 1) =>
        /\ cfg.lastGet.id = cfg.module_config.id
        /\ cfg.prevGet # NoConfig => cfg.prevGet.id = cfg.lastGet.id

-----------------------------------------------------------------------------
(* The sizing procedure (specification SpecRisk)                           *)

\* base x probability_multiplier x liquidity_multiplier as the fraction
\* RawNumerator / 700 of a cent, for a liquidity l at or above the minimum
RawNumerator(p, l) == (p - 920) * Min(l, 1000000)

\* round to 2 decimals first, then 0 below 10, else min(rounded, base)
RoundThenThreshold(p, l) ==
    LET rounded == RoundCents(RawNumerator(p, l), 700)
    IN  IF rounded < 1000 THEN 0 ELSE Min(rounded, MAX_POSITION_SIZE)

\* cap at base first, then 0 below 10, then round to 2 decimals
ThresholdThenRound(p, l) ==
    LET n == Min(RawNumerator(p, l), 700 * MAX_POSITION_SIZE)
    IN  IF n < 700 * 1000 THEN 0 ELSE RoundCents(n, 700)

SizedAboveFloor ==
    /\ riskCall.op = "calculate_position_size"
    /\ riskCall.market.liquidity.kind = "num"
    /\ riskCall.market.liquidity.v >= MIN_LIQUIDITY

\* C20: for every liquidity >= minimum and every probability,
\* calculate_position_size returns what this procedure returns: the raw
\* size is rounded to 2 decimals, a rounded size below 10 gives 0, else the
\* result is min(rounded size, base); a raw size of 9.996 gives 10.00.
C20_RoundedBeforeThreshold ==
    SizedAboveFloor =>
        /\ ~riskCall.size.raised
        /\ riskCall.size.size =
               RoundThenThreshold(riskCall.probability, riskCall.market.liquidity.v)

\* C20 as the code orders the steps: the raw size is capped at base, a
\* capped size below 10 gives 0 before any rounding, else the result is the
\* capped size rounded to 2 decimals; a raw size of 9.996 gives 0.
C20_ThresholdBeforeRounding ==
    SizedAboveFloor =>
        /\ ~riskCall.size.raised
        /\ riskCall.size.size =
               ThresholdThenRound(riskCall.probability, riskCall.market.liquidity.v)

\* probability 0.921 and liquidity 6999.00: the raw size 9.9986 rounds to
\* 10.00 and 0 is returned
C20_Witness ==
    /\ SizedAboveFloor
    /\ riskCall.probability = 921
    /\ riskCall.market.liquidity.v = 699900
    /\ RoundCents(RawNumerator(921, 699900), 700) = 1000
    /\ riskCall.size.size = 0

-----------------------------------------------------------------------------
(* The time window of check_market_criteria (specification SpecCriteria)   *)

\* the call got as far as the time check with a parseable end date
ReachedTimeCheck(in) ==
    LET m == in.market
        p == m.outcomePrices
    IN  /\ m.active = "true" /\ m.closed # "true"
        /\ m.archived # "true" /\ m.funded = "true"
        /\ p.kind \in {"list", "encoded"} /\ Len(p.prices) >= 2
        /\ in.min_prob <= SeqMax(p.prices) /\ SeqMax(p.prices) <= in.max_prob
        /\ EndDateStr(m).kind \in {"iso", "date"}

\* C21: check_market_criteria qualifies a market only if its hours until
\* resolution are strictly greater than 0 and at most time_window_hours; a
\* market whose end timestamp equals the current time, or lies in the past,
\* is rejected.
C21_QualifiedOnlyInsideWindow ==
    (critIn # Idle /\ ReachedTimeCheck(critIn) /\ critOut.qualifies) =>
        /\ 0 < EndDateStr(critIn.market).diff
        /\ EndDateStr(critIn.market).diff <= critIn.time_window_hours

\* C21 with the lower bound the code tests: a qualified market has hours
\* until resolution of at least 0 and at most time_window_hours
C21_QualifiedNotPastWindow ==
    (critIn # Idle /\ ReachedTimeCheck(critIn) /\ critOut.qualifies) =>
        /\ 0 <= EndDateStr(critIn.market).diff
        /\ EndDateStr(critIn.market).diff <= critIn.time_window_hours

\* a market resolving exactly now qualifies
C21_ZeroHoursQualifies ==
    /\ critIn # Idle
    /\ ReachedTimeCheck(critIn)
    /\ EndDateStr(critIn.market).diff = 0
    /\ critOut.qualifies

-----------------------------------------------------------------------------
(* The order of the checks (specification SpecCriteria)                    *)

\* Each check on its own: the reason it gives for the market, "" when it
\* passes or cannot be made (no price list to take a maximum of).
FlagsReason(in) ==
    IF in.market.active # "true" THEN "Market is not active"
    ELSE IF in.market.closed = "true" THEN "Market is closed"
    ELSE IF in.market.archived = "true" THEN "Market is archived"
    ELSE IF in.market.funded # "true" THEN "Market is not funded"
    ELSE ""

PriceVectorReason(in) ==
    LET p == in.market.outcomePrices
    IN  IF p.kind = "garbled" THEN "Error during validation"
        ELSE IF p.kind \in {"absent", "null"} \/ Len(p.prices) < 2
        THEN "Invalid outcome prices"
        ELSE IF p.kind = "nonnumeric" THEN "Could not parse outcome prices"
        ELSE ""

BandReason(in) ==
    LET p == in.market.outcomePrices
    IN  IF /\ p.kind \in {"list", "encoded"} /\ Len(p.prices) >= 2
           /\ \E i \in DOMAIN p.prices :
                  /\ \A j \in DOMAIN p.prices : p.prices[j] <= p.prices[i]
                  /\ (p.prices[i] < in.min_prob \/ p.prices[i] > in.max_prob)
        THEN "Probability outside range"
        ELSE ""

TimeReason(in) ==
    LET end == IF in.market.endDate.kind # "absent"
               THEN in.market.endDate ELSE in.market.endDateIso
    IN  IF end.kind = "absent" THEN "No end date available"
        ELSE IF end.kind \in {"bad", "naive"} THEN "Invalid end date format"
        ELSE IF end.diff < 0 THEN "Market has already ended"
        ELSE IF end.diff > in.time_window_hours THEN "Resolution too far"
        ELSE ""

LiquidityReason(in) ==
    IF ReportedLiquidity(in.market) > 0
       /\ ReportedLiquidity(in.market) < SCANNER_MIN_LIQUIDITY
    THEN "Insufficient liquidity"
    ELSE ""

\* the checks in the stated order
OrderedReasons(in) ==
    <<FlagsReason(in), PriceVectorReason(in), BandReason(in), TimeReason(in),
      LiquidityReason(in)>>

\* the reasons each check can give, in the same order
ReasonsOfCheck ==
    <<{"Market is not active", "Market is closed", "Market is archived",
       "Market is not funded"},
      {"Invalid outcome prices", "Could not parse outcome prices",
       "Error during validation"},
      {"Probability outside range"},
      {"No end date available", "Invalid end date format",
       "Market has already ended", "Resolution too far"},
      {"Insufficient liquidity"}>>

FailingChecks(in) == {k \in 1..5 : OrderedReasons(in)[k] # ""}

\* C22: the checks run in the order status flags, outcome-price vector,
\* probability band, end date and time window, liquidity, and stop at the
\* first failure: the reason returned is that of the earliest failing check,
\* later checks have no effect on it, reasons of different checks are
\* pairwise distinct, and an error while checking gives (false, reason).
C22_EarliestFailingCheckReported ==
    critIn # Idle =>
        /\ critOut.qualifies \in BOOLEAN
        /\ critOut.qualifies <=> FailingChecks(critIn) = {}
        /\ critOut.qualifies => critOut.reason = "All criteria met"
        /\ \A k \in FailingChecks(critIn) :
               (\A j \in 1..(k - 1) : j \notin FailingChecks(critIn)) =>
                   /\ critOut.reason = OrderedReasons(critIn)[k]
                   /\ critOut.reason \in ReasonsOfCheck[k]
        /\ \A j, k \in 1..5 : j # k => ReasonsOfCheck[j] \cap ReasonsOfCheck[k] = {}

\* a market that fails the time window and the liquidity minimum, reported
\* with the time window's reason
C22_Witness ==
    /\ critIn # Idle
    /\ FlagsReason(critIn) = "" /\ PriceVectorReason(critIn) = ""
    /\ BandReason(critIn) = ""
    /\ TimeReason(critIn) = "Market has already ended"
    /\ LiquidityReason(critIn) = "Insufficient liquidity"
    /\ critOut = Verdict(FALSE, "Market has already ended")

-----------------------------------------------------------------------------
(* The qualification flags of get_market_details (SpecFunctions)           *)

\* active, not closed, not archived, funded, read from the detail record
StatusHolds(market_data) ==
    /\ market_data.active = "true" /\ market_data.closed # "true"
    /\ market_data.archived # "true" /\ market_data.funded = "true"

C23_QualifiedIsThreeRequirements ==
    (fnCall # Idle /\ fnCall.op = "get_market_details" /\ fnCall.out.kind = "dict") =>
        (fnCall.out.is_qualified <=>
            /\ fnCall.out.meets_liquidity_requirement
            /\ fnCall.out.meets_probability_requirement
            /\ fnCall.out.meets_time_requirement)

\* a closed detail record that is reported as qualified
C23_ClosedQualified ==
    /\ fnCall # Idle /\ fnCall.op = "get_market_details"
    /\ fnCall.out.kind = "dict"
    /\ fnCall.in.closed = "true" /\ fnCall.out.closed
    /\ fnCall.out.is_qualified

-----------------------------------------------------------------------------
(* Leaving the loop of run_continuous_scan (specification FairLoop)        *)

\* the thread is between two iterations: at "while True" or in one of the
\* two sleeps
BetweenCycles(wk) == wk.pc \in {"top", "sleep", "handler"}

\* this step takes thread w out of the loop
LeavesLoop(w) ==
    /\ Running(loop.workers[w]) /\ loop.workers[w].pc # "exiting"
    /\ loop'.workers[w].pc = "exiting"

\* C24: run_continuous_scan leaves its loop only between iterations, where
\* a stop signal is observed; a stop or cancellation signal arriving while
\* a scan cycle is in flight never ends the loop mid-scan, the cycle in
\* flight completes (with success or a caught exception) first.
C24_LoopLeftOnlyBetweenCycles ==
    [][\A w \in Workers : LeavesLoop(w) => BetweenCycles(loop.workers[w])]_vars

\* the loop is never left because /stop cleared is_scanning: every exit
\* is the interrupt of "except KeyboardInterrupt" or of the handler's sleep
C24_LoopLeftOnlyByInterrupt ==
    [][\A w \in Workers :
          LeavesLoop(w) => loop'.workers[w].exit = "interrupted"]_vars

-----------------------------------------------------------------------------
(* Notification and callback of an iteration (specification FairLoop)      *)

\* the events of one kind among those of an iteration
EventsOf(events, op) == {k \in DOMAIN events : events[k].op = op}

\* what the iteration of thread w did with its candidates is as stated
CycleAsStated(w) ==
    LET wk == loop.workers[w]
        c == wk.cycle
        notes == EventsOf(c.events, "notify")
        calls_ == EventsOf(c.events, "callback")
    IN  /\ (~c.scanned \/ c.found = <<>>) => c.events = <<>>
        /\ (c.scanned /\ c.found # <<>>) =>
            /\ Cardinality(calls_) = IF c.callback = "none" THEN 0 ELSE 1
            /\ \A k \in calls_ : c.events[k].items = c.found
            /\ Cardinality(notes) = IF c.sink = "unset" THEN 0 ELSE 1
            /\ \A k \in notes :
                   /\ Len(c.events[k].items) <= 5
                   /\ c.events[k].items =
                          SubSeq(c.found, 1, Len(c.events[k].items))
                   /\ Len(c.found) <= 5 => c.events[k].items = c.found
            /\ \A k \in notes, j \in calls_ : k < j
        /\ wk.after = "failed" /\ wk.pc = "handler" => c.events = <<>>
        /\ c.callback = "raises" =>
               wk.pc = "sleep" /\ wk.after = "ok" /\ wk.exit = "none"

\* the callback of thread w's iteration raised
CallbackRaised(w) ==
    /\ loop.workers[w].pc = "sleep"
    /\ loop.workers[w].cycle.callback = "raises"
    /\ EventsOf(loop.workers[w].cycle.events, "callback") # {}

\* C25: in an iteration whose scan succeeds with at least one candidate the
\* callback, when supplied, is invoked exactly once with the full candidate
\* list, after the notification, when a sink is configured, was built from
\* at most the first 5 candidates; when the scan fails or finds nothing
\* neither happens.  An exception of the callback is contained: the loop
\* sleeps scan_interval and goes on to the next iteration (unless the
\* thread is interrupted in its sleep).
C25_CallbackOncePerFruitfulCycle ==
    /\ [](\A w \in Workers : CycleAsStated(w))
    /\ \A w \in Workers :
           CallbackRaised(w) ~>
               \/ loop.workers[w].pc = "in_cycle" /\ loop.workers[w].after = "ok"
               \/ loop.workers[w].exit = "interrupted"

\* an iteration that found more than 5 candidates, notified the first 5,
\* then called the callback with all of them, and the callback raised
C25_Witness ==
    \E w \in Workers :
        LET c == loop.workers[w].cycle
        IN  /\ CallbackRaised(w)
            /\ Len(c.found) > 5
            /\ Len(c.events) = 2
            /\ c.events[1].op = "notify" /\ Len(c.events[1].items) = 5
            /\ c.events[2].op = "callback" /\ c.events[2].items = c.found

-----------------------------------------------------------------------------
(* The number of scan loops (specification FairLoop)                       *)

\* the threads that are inside the loop of run_continuous_scan
InLoop == {w \in Workers : loop.workers[w].pc \in {"top", "in_cycle", "sleep", "handler"}}

\* C26: after any sequence of /start and /stop requests at most one
\* background worker runs the continuous-scan loop: /start creates a worker
\* only when none is still running, so /start, /stop, /start never leaves
\* two scan loops running against the same scanner.
C26_AtMostOneWorker == Cardinality(InLoop) <= 1

\* what /start does check: while is_scanning is set, no second thread is
\* created, so two loops run only after a /stop
C26_SecondWorkerOnlyAfterStop ==
    Cardinality(InLoop) > 1 => \E w \in InLoop : loop.workers[w].stopped

-----------------------------------------------------------------------------
(* The price fetch and the order request (specification Spec)              *)

\* a token is resolved for outcome_index: the identifiers parse and the
\* index passes the guard of line 53
TokenResolved(in) ==
    LET tok == in.market.clob_token_ids
    IN  /\ tok.kind = "encoded"
        /\ ~TokenGuard(tok.ids, in.outcome_index)
        /\ IndexInRange(tok.ids, in.outcome_index)

\* the execute_market_order calls of this execute_trade call
Orders == {i \in DOMAIN calls : calls[i].op = "execute_market_order"}

\* C27: the price fetch does not block execution: once sizing, the risk
\* gate and token resolution have passed, the order is submitted with the
\* computed position size whatever the outcome of get_orderbook_price.
C27_OrderWhateverPriceOutcome ==
    (tradeIn # Idle /\ GatesPass(tradeIn) /\ TokenResolved(tradeIn)) =>
        /\ Orders # {}
        /\ \A i \in Orders :
               calls[i].amount =
                   calculate_position_size(tradeIn.market, tradeIn.probability).size

\* C27 for a price fetch that returns: whatever price it returns, the order
\* is submitted with the computed position size; a price fetch that raises
\* ends the call with success=false, error = the exception's text, and no
\* order.
C27_OrderWhateverPriceReturned ==
    (tradeIn # Idle /\ GatesPass(tradeIn) /\ TokenResolved(tradeIn)) =>
        /\ tradeIn.price.ok =>
               /\ Orders # {}
               /\ \A i \in Orders :
                      calls[i].amount =
                          calculate_position_size(tradeIn.market,
                                                  tradeIn.probability).size
        /\ ~tradeIn.price.ok =>
               /\ Orders = {}
               /\ result = [success |-> FALSE, order_id |-> NoneId,
                            error |-> ErrorText(tradeIn.price.exc),
                            position_size |-> 0]

\* an order submitted although the price fetched is above the probability
C27_Witness ==
    /\ tradeIn # Idle /\ GatesPass(tradeIn) /\ TokenResolved(tradeIn)
    /\ tradeIn.price.ok /\ tradeIn.price.price > tradeIn.probability
    /\ Orders # {}
    /\ result.success

-----------------------------------------------------------------------------
(* The token an order designates (specification Spec)                      *)

\* what execute_market_order is given: the amount and the market reference
OrderRequest(order) == [amount |-> order.amount, token |-> order.token,
                        market_ref |-> order.market_ref]

\* C28: the order request passed to execute_market_order identifies the
\* token resolved for outcome_index: the token whose price is fetched is
\* the token that is ordered, so that runs differing only in a valid
\* outcome_index pass order requests that designate different tokens.
C28_OrderDesignatesResolvedToken ==
    \A i \in Orders :
        LET tok == tradeIn.market.clob_token_ids
        IN  /\ OrderRequest(calls[i]).token = PyIndex(tok.ids, tradeIn.outcome_index)
            /\ \E j \in 1..(i - 1) :
                   /\ calls[j].op = "get_orderbook_price"
                   /\ calls[j].token = OrderRequest(calls[i]).token

\* what the request does carry: no token, and the candidate's whole
\* clob_token_ids entry, the same for every outcome_index
C28_OrderCarriesAllTokens ==
    \A i \in Orders :
        /\ OrderRequest(calls[i]).token = NoneId
        /\ OrderRequest(calls[i]).market_ref = tradeIn.market.clob_token_ids.ids
        /\ calls[i - 1].op = "get_orderbook_price"
        /\ calls[i - 1].token =
               PyIndex(tradeIn.market.clob_token_ids.ids, tradeIn.outcome_index)

-----------------------------------------------------------------------------
(* The number of submissions (specification Spec)                          *)

\* C29: one execute_trade call invokes execute_market_order at most once,
\* on every path, those where the submission raises included: a submission
\* is never retried or repeated within one call.
C29_AtMostOneSubmission ==
    /\ Cardinality(Orders) <= 1
    /\ (tradeIn # Idle /\ ~result.success /\ exception.step # "order") => Orders = {}
    /\ result.success => Cardinality(Orders) = 1

\* the submission raised: it was made once and the call reports the failure
C29_Witness ==
    /\ exception.step = "order"
    /\ Cardinality(Orders) = 1
    /\ ~result.success

-----------------------------------------------------------------------------
(* The scanner's counters over several calls (specification SpecRepeated)  *)

\* C30: after any sequence of scan_markets calls, scan_count is the number
\* of calls that returned and the cached qualified set is what the latest
\* call that returned gave back; a call that raises leaves scan_count,
\* last_scan_time and the cached set unchanged.
C30_CountersFollowReturnedCalls ==
    history.calls > 0 =>
        /\ scanner.scan_count = history.returned
        /\ scanner.qualified_markets = history.latest
        /\ scanOut.outcome = "raised" => scanner = history.before

\* what holds: the cached set is what the latest call that returned gave
\* back, and a call whose fetch fails leaves the three fields unchanged
C30_FetchFailureLeavesScanner ==
    history.calls > 0 =>
        /\ scanner.qualified_markets = history.latest
        /\ (scanOut.outcome = "raised" /\ scanOut.exc # "ValidationError") =>
               scanner = history.before
        /\ scanOut.outcome = "returned" =>
               /\ scanner.scan_count = history.before.scan_count + 1
               /\ scanner.last_scan_time = scanIn.now

\* a call that raised and was counted
C30_RaisedCallCounted ==
    /\ history.calls > 1
    /\ scanOut.outcome = "raised"
    /\ scanner.scan_count = history.before.scan_count + 1
    /\ scanner.last_scan_time = scanIn.now
    /\ scanner.qualified_markets = history.before.qualified_markets
    /\ history.before.qualified_markets # <<>>

====
